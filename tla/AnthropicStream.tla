---------------------------- MODULE AnthropicStream ----------------------------
(***************************************************************************)
(* The translation of an OpenAI chat stream into an Anthropic event stream *)
(* (app/anthropic_compat.py, _AnthropicStreamState and the functions on    *)
(* it), and a client that reads the events. Texts, names and arguments are *)
(* left out: a delta is known by the block it belongs to.                  *)
(***************************************************************************)
EXTENDS Integers

CONSTANT Tools   \* tool call indices an upstream uses

NoBlock == -1    \* text_block_index is None

ASSUME ToolsAssumption == Tools \subseteq Nat

-----------------------------------------------------------------------------
(* A client that reads the events of one message: the blocks it has open.  *)
Event(kind, index) == [kind |-> kind, index |-> index]

Expects(r, e) ==
  \/ e.kind = "start" /\ r.phase = "idle"
  \/ e.kind = "open" /\ r.phase = "streaming" /\ e.index \notin r.blocks
  \/ e.kind \in {"delta", "close"} /\ r.phase = "streaming" /\ e.index \in r.blocks
  \/ e.kind = "end" /\ r.phase = "streaming" /\ r.blocks = {}
  \/ e.kind = "stop" /\ r.phase = "ended"
  \/ e.kind = "error" /\ r.phase \in {"streaming", "ended", "stopped"}

Reads(r, e) ==
  CASE ~Expects(r, e) -> [r EXCEPT !.phase = "lost"]
    [] e.kind = "open" -> [r EXCEPT !.blocks = @ \cup {e.index}]
    [] e.kind = "close" -> [r EXCEPT !.blocks = @ \ {e.index}]
    [] e.kind = "delta" -> r
    [] OTHER -> [r EXCEPT !.phase =
         [start |-> "streaming", end |-> "ended", stop |-> "stopped", error |-> "failed"][e.kind]]

-----------------------------------------------------------------------------
(* _AnthropicStreamState, with the client that reads what is yielded.      *)
(* `tools` maps a tool call to its block, `running` holds the calls that   *)
(* are started and not stopped.                                            *)
Fresh ==
  [started |-> FALSE, stopped |-> FALSE,
   text |-> FALSE, textIndex |-> NoBlock, thinking |-> FALSE, thinkingIndex |-> NoBlock,
   tools |-> [t \in Tools |-> NoBlock], running |-> {}, next |-> 0, usage |-> FALSE,
   reader |-> [phase |-> "idle", blocks |-> {}]]

Emit(s, kind, index) == [s EXCEPT !.reader = Reads(@, Event(kind, index))]

Start(s) == IF s.started THEN s ELSE Emit([s EXCEPT !.started = TRUE], "start", NoBlock)

(* Slip: a plausible error, put in place of the operator it is named after *)
(* to see that a property fails.                                           *)
SlipStopText(s) ==   \* the block counts as open for ever
  IF s.textIndex = NoBlock THEN s ELSE Emit(s, "close", s.textIndex)

StopText(s) == IF s.text THEN Emit([s EXCEPT !.text = FALSE], "close", s.textIndex) ELSE s

StopThinking(s) ==
  IF s.thinking THEN Emit([s EXCEPT !.thinking = FALSE], "close", s.thinkingIndex) ELSE s

(* An index is taken once: a text that goes on after a thought or a tool   *)
(* call is a block with the index of the first.                            *)
OpenText(s) ==
  LET known == s.textIndex # NoBlock
      i == IF known THEN s.textIndex ELSE s.next
  IN Emit([s EXCEPT !.text = TRUE, !.textIndex = i, !.next = IF known THEN @ ELSE @ + 1], "open", i)

OpenThinking(s) ==
  LET known == s.thinkingIndex # NoBlock
      i == IF known THEN s.thinkingIndex ELSE s.next
  IN Emit([s EXCEPT !.thinking = TRUE, !.thinkingIndex = i, !.next = IF known THEN @ ELSE @ + 1], "open", i)

StartText(s) == IF s.text THEN s ELSE OpenText(StopThinking(s))
StartThinking(s) == IF s.thinking THEN s ELSE OpenThinking(StopText(s))

(* _ensure_tool_state and _start_tool_block. *)
StartTool(s, t) ==
  IF s.tools[t] # NoBlock THEN s
  ELSE Emit([s EXCEPT !.tools[t] = s.next, !.running = @ \cup {t}, !.next = @ + 1], "open", s.next)

(* The reader of one close for each of the running calls, in any order:    *)
(* lost if one of them has no open block of its own.                       *)
ReadsCloses(s) ==
  LET own == \A t \in s.running : s.tools[t] \in s.reader.blocks /\
                \A u \in s.running : s.tools[u] = s.tools[t] => u = t
  IN IF s.running = {} THEN s.reader
     ELSE IF s.reader.phase = "streaming" /\ own
     THEN [s.reader EXCEPT !.blocks = @ \ {s.tools[t] : t \in s.running}]
     ELSE [s.reader EXCEPT !.phase = "lost"]

StopTools(s) == [s EXCEPT !.running = {}, !.reader = ReadsCloses(s)]

(* _finalize_anthropic_stream. *)
Finalize(s) ==
  IF s.stopped THEN s
  ELSE Emit(Emit([StopTools(StopThinking(StopText(Start(s)))) EXCEPT !.stopped = TRUE],
                 "end", NoBlock), "stop", NoBlock)

(* _translate_openai_chunk_to_anthropic_events, one part of a delta at a   *)
(* time: a text, a list of thoughts that is empty or not, a tool call; the *)
(* usage comes without a delta.                                            *)
TextDelta(s) == LET x == StartText(Start(s)) IN Emit(x, "delta", x.textIndex)
NoThoughts(s) == StopText(Start(s))
Thought(s) == LET x == StartThinking(StopText(Start(s))) IN Emit(x, "delta", x.thinkingIndex)
ToolCall(s, t) ==
  LET x == StartTool(StopThinking(StopText(Start(s))), t) IN Emit(x, "delta", x.tools[t])
NamesUsage(s) == [s EXCEPT !.usage = TRUE]

Translations(s) ==
  {Start(s), TextDelta(s), NoThoughts(s), Thought(s)} \cup {ToolCall(s, t) : t \in Tools}
=============================================================================

--------------------------- MODULE MCUsageService ---------------------------
(***************************************************************************)
(* Instance for TLC of the two parts of the usage and quota service.  They *)
(* share no state, so each behaviour follows one of them.                  *)
(*   Quota: two requests of one user, one of them with an API key that has *)
(* a limit of its own.                                                     *)
(*   Stream: two requests of one user, the second without an API key; its  *)
(* entry may not parse.                                                    *)
(***************************************************************************)
EXTENDS QuotaReservation, TLC

CONSTANTS r1, r2, user, key

UserAndKey == (r1 :> {user, key}) @@ (r2 :> {user})
OneEach == [k \in Keys |-> 1]

CONSTANTS e1, e2, Events, Suspects, Consumers, MaxAttempts, Batch, MaxTroubles

MCAttributes == (e1 :> [user |-> "u", api_key |-> "k", model |-> "m"])
             @@ (e2 :> [user |-> "u", model |-> "n"])

VARIABLES malformed, unsent, stream, read, pending, idle, dead, seen, summary,
          failures, poll, step, batch, memo, troubles
Stream == INSTANCE UsageStream WITH Attributes <- MCAttributes, phase <- poll

ASSUME StreamAssumed == Stream!StreamAssumption

VARIABLE part
streamVars == <<malformed, unsent, stream, read, pending, idle, dead, seen, summary,
                failures, poll, step, batch, memo, troubles>>
parts == <<vars, streamVars, part>>

PartsInit ==
  /\ Init /\ Stream!Init
  /\ \/ part = "quota" /\ malformed = {}
     \/ part = "stream" /\ failOpen

QuotaPart == part = "quota" /\ UNCHANGED <<streamVars, part>>
StreamPart == part = "stream" /\ UNCHANGED <<vars, part>>

PartsNext == (QuotaPart /\ Next) \/ (StreamPart /\ Stream!Next)

PartsSpec == PartsInit /\ [][PartsNext]_parts

(* The fairness of QuotaReservation and of UsageStream. *)
PartsFairSpec ==
  /\ PartsSpec
  /\ WF_parts(QuotaPart /\ Tick)
  /\ \A r \in Requests :
       /\ WF_parts(QuotaPart /\ Reserve(r))
       /\ WF_parts(QuotaPart /\ (ReserveAnswered(r) \/ ReserveFails(r)))
       /\ WF_parts(QuotaPart /\ Record(r))
       /\ WF_parts(QuotaPart /\ (CommitAnswered(r) \/ CommitFails(r)))
       /\ WF_parts(QuotaPart /\ Complete(r)) /\ WF_parts(QuotaPart /\ Release(r))
       /\ WF_parts(QuotaPart /\ (ReleaseAnswered(r) \/ ReleaseFails(r)))
  /\ \A c \in Consumers : WF_parts(StreamPart /\ Stream!Consume(c))
  /\ \A i \in 1 .. (Cardinality(Events) + MaxTroubles) : WF_parts(StreamPart /\ Stream!GrowIdle(i))

(* Every event is counted once, or its dead letter tells why it was not    *)
(* (consumer.go, ProcessMessage).                                          *)
EventsAccounted == part = "stream" => Stream!EventsAccounted
(* Every entry is acknowledged in the end (consumer.go, reclaimPending).   *)
StreamDrains == Stream!StreamDrains
(* Slots are given back, and those that leaked keep no client out for ever. *)
SlotsComeBack == ReservationsEnd /\ <>[](part = "quota" => Admitted)
=============================================================================

-------------------------- MODULE StationMembership --------------------------
(***************************************************************************)
(* Who owns and who belongs to a station: applications and their review,   *)
(* stations that an operator creates, and users who join by the station's  *)
(* address (app/stations.py, app/auth.py).  No handler locks more than the *)
(* application it reviews: it checks, and commits later, and what keeps    *)
(* two of them apart are the unique indexes of the tables.                 *)
(***************************************************************************)
EXTENDS StationParameters

VARIABLES
  application,  \* coincoin_station_applications
  station,      \* coincoin_stations
  link,         \* coincoin_station_customer_links: the station of a user
  handler       \* what a handler has checked and not committed yet

vars == <<application, station, link, handler>>

Work(op, u, a, slug, s) == [op |-> op, user |-> u, app |-> a, slug |-> slug, station |-> s]
Idle == Work("idle", None, None, None, None)

Init ==
  /\ application = [a \in Applications |-> None]
  /\ station = [s \in Stations |-> None]
  /\ link = [u \in Users |-> None]
  /\ handler = [h \in Handlers |-> Idle]

Existing == {s \in Stations : station[s] # None}
Owned(u) == {s \in Existing : station[s].owner = u}
Taken == {station[s].slug : s \in Existing}
Pending(u) == {a \in Applications : application[a] = [user |-> u, status |-> "pending"]}

Takes(h, work) == handler[h] = Idle /\ handler' = [handler EXCEPT ![h] = work]
Ends(h) == handler' = [handler EXCEPT ![h] = Idle]
Doing(h, op) == handler[h].op = op

-----------------------------------------------------------------------------
(* Unique indexes. *)

(* A plausible error, put in place of UserIsFree to see that the property  *)
(* fails: the index of the links is not unique.                            *)
SlipUserIsFree(u) == TRUE

UserIsFree(u) == link[u] = None    \* user_id
SlugIsFree(slug) == slug \notin Taken

-----------------------------------------------------------------------------
(* create_station_application. *)
CheckApplication(h, u) ==
  /\ Owned(u) = {} /\ Pending(u) = {}
  /\ Takes(h, Work("apply", u, None, None, None))
  /\ UNCHANGED <<application, station, link>>

Apply(h) ==
  /\ Doing(h, "apply")
  /\ \E a \in Applications :
       /\ application[a] = None
       /\ application' = [application EXCEPT ![a] = [user |-> handler[h].user, status |-> "pending"]]
  /\ Ends(h)
  /\ UNCHANGED <<station, link>>

-----------------------------------------------------------------------------
(* review_station_application holds the row of the application.            *)
Reviewable(a) ==
  /\ application[a] # None /\ application[a].status = "pending"
  /\ \A h \in Handlers : handler[h].app # a

Reviewed(a, verdict) == application' = [application EXCEPT ![a].status = verdict]

Reject(a) ==
  /\ Reviewable(a)
  /\ Reviewed(a, "rejected")
  /\ UNCHANGED <<station, link, handler>>

(* The applicant has a station by now: there is nothing to create.         *)
ApproveOwner(a) ==
  /\ Reviewable(a)
  /\ Owned(application[a].user) # {}
  /\ Reviewed(a, "approved")
  /\ UNCHANGED <<station, link, handler>>

CheckApproval(h, a) ==
  /\ Reviewable(a)
  /\ Owned(application[a].user) = {}
  /\ \E slug \in Slugs :
       /\ SlugIsFree(slug)
       /\ Takes(h, Work("approve", application[a].user, a, slug, None))
  /\ UNCHANGED <<application, station, link>>

(* The rows of a new station, or with a unique index in the way the        *)
(* rollback of the whole transaction.                                      *)
MayFound(h) == SlugIsFree(handler[h].slug) /\ UserIsFree(handler[h].user)

Founded(h) ==
  \E s \in Stations :
    /\ station[s] = None
    /\ station' = [station EXCEPT ![s] = [owner |-> handler[h].user, slug |-> handler[h].slug]]
    /\ link' = [link EXCEPT ![handler[h].user] = s]

Approve(h) ==
  /\ Doing(h, "approve")
  /\ MayFound(h) /\ Founded(h)
  /\ Reviewed(handler[h].app, "approved")
  /\ Ends(h)

RollBack(h) ==
  /\ Doing(h, "approve") \/ Doing(h, "found")
  /\ ~ MayFound(h)
  /\ Ends(h)
  /\ UNCHANGED <<application, station, link>>

-----------------------------------------------------------------------------
(* create_admin_station. *)
CheckFoundation(h, u, slug) ==
  /\ Owned(u) = {} /\ link[u] = None
  /\ SlugIsFree(slug)
  /\ Takes(h, Work("found", u, None, slug, None))
  /\ UNCHANGED <<application, station, link>>

Found(h) ==
  /\ Doing(h, "found")
  /\ MayFound(h) /\ Founded(h)
  /\ Ends(h)
  /\ UNCHANGED application

-----------------------------------------------------------------------------
(* _link_user_to_station_if_open, at a registration or a login with the    *)
(* address of a station.                                                   *)
CheckJoin(h, u, s) ==
  /\ s \in Existing
  /\ link[u] = None
  /\ Takes(h, Work("join", u, None, None, s))
  /\ UNCHANGED <<application, station, link>>

Join(h) ==
  /\ Doing(h, "join")
  /\ link' = IF UserIsFree(handler[h].user)
             THEN [link EXCEPT ![handler[h].user] = handler[h].station] ELSE link
  /\ Ends(h)
  /\ UNCHANGED <<application, station>>

(* create_station_customer: the owner adds a user who is new.              *)
AddCustomer(u, s) ==
  /\ s \in Existing
  /\ link[u] = None
  /\ \A a \in Applications : application[a] # None => application[a].user # u
  /\ \A h \in Handlers : handler[h].user # u
  /\ link' = [link EXCEPT ![u] = s]
  /\ UNCHANGED <<application, station, handler>>

Next ==
  \/ \E a \in Applications : Reject(a) \/ ApproveOwner(a)
  \/ \E u \in Users, s \in Stations : AddCustomer(u, s)
  \/ \E h \in Handlers :
       \/ Apply(h) \/ Approve(h) \/ Found(h) \/ RollBack(h) \/ Join(h)
       \/ \E a \in Applications : CheckApproval(h, a)
       \/ \E u \in Users :
            \/ CheckApplication(h, u)
            \/ \E slug \in Slugs : CheckFoundation(h, u, slug)
            \/ \E s \in Stations : CheckJoin(h, u, s)

Spec == Init /\ [][Next]_vars

-----------------------------------------------------------------------------
(* Types. *)
Rows(R) == R \cup {None}

TypeOK ==
  /\ application \in [Applications -> Rows(ApplicationRows)]
  /\ station \in [Stations -> Rows(StationRows)]
  /\ link \in [Users -> Rows(Stations)]
  /\ handler \in [Handlers ->
       [op : {"idle", "apply", "approve", "found", "join"}, user : Rows(Users),
        app : Rows(Applications), slug : Rows(Slugs), station : Rows(Stations)]]

(* An owner belongs to the station owned, so nobody comes to own two, and  *)
(* whoever has been approved owns one, however reviews, creations and      *)
(* registrations overlap.                                                  *)
OwnersBelong ==
  /\ \A s \in Existing : link[station[s].owner] = s
  /\ \A a \in Applications :
       application[a] # None /\ application[a].status = "approved" => Owned(application[a].user) # {}
=============================================================================

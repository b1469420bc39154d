------------------------- MODULE SessionTableProofs -------------------------
(***************************************************************************)
(* What the daemon promises of its sessions, for any number of branches,   *)
(* clients, sessions and requests: a branch has one session at a time, an  *)
(* open meets no lease of a session that still runs, a close is what it    *)
(* says, events alternate, orphans are known, and a Shutdown that returns  *)
(* without an error leaves nothing behind.                                 *)
(***************************************************************************)
EXTENDS SessionOpenProofs

(* Zenon proves what no step says otherwise of.                             *)
USE Zenon
USE TableAssumption DEF Sessions, Nobody, Free, Slot

-----------------------------------------------------------------------------
(* What becomes of a session that was opened. *)

LEMMA OpenRefusedStep ==
  ASSUME TableInv, NEW c \in Clients, OpenRefused(c)
  PROVE TableInv'
<1>0. Types /\ \A d \in Clients : Opening(c) /\ Opening(d) /\ req[c].key = req[d].key => c = d
  BY DEF TableInv, ReqInv
<1>r. \A d \in Clients : ReqOK(d)
  BY DEF TableInv, ReqInv
<1>k. PICK k \in Keys : k = req[c].key
  BY <1>r DEF OpenRefused, ReqOK
<1>s. PICK s \in 0..MaxSessions : s = req[c].sid
  BY <1>0, SidType
<1>1. /\ req[c].at = "refused" /\ Opening(c) /\ req[c].op = "open" /\ slot[k] = Slot("reserved", Nobody)
      /\ UNCHANGED <<sess, keyOf, failed, lease, next, log, closing, sd, janitor>>
      /\ inflight' = inflight \ {c}
  BY <1>r, <1>k DEF OpenRefused, Opening, ReqOK
<1>2. /\ req' \in [Clients -> Requests] /\ \A d \in Clients : d # c => req'[d] = req[d]
      /\ req'[c].at = "answered" /\ req'[c].op = "open" /\ req'[c].key = k
  <2> DEFINE a == IF lease[k] # Nobody /\ lease[k] = orphaned[k] THEN "an earlier session's" ELSE "refused"
             r == [req[c] EXCEPT !.at = "answered", !.answer = a]
  <2>1. a \in Replies /\ req[c] \in Requests
    BY <1>0, SidType DEF Replies
  <2>2. req' = [req EXCEPT ![c] = r]
    BY <1>k DEF OpenRefused, Answers
  <2> HIDE DEF a
  <2>3. r \in Requests /\ r.at = "answered" /\ r.op = "open" /\ r.key = k
    BY <1>1, <1>k, <2>1 DEF Requests
  <2> HIDE DEF r
  <2> QED
    BY <1>0, <2>2, <2>3 DEF Types
<1>3. /\ slot' \in [Keys -> Slots] /\ slot'[k] = Free /\ \A j \in Keys : j # k => slot'[j] = slot[j]
  BY <1>0, <1>k, SlotsBuilt DEF OpenRefused, Types
<1>4. /\ orphaned' \in [Keys -> 0..MaxSessions] /\ \A j \in Keys : j # k => orphaned'[j] = orphaned[j]
      /\ orphaned'[k] = IF s \in failed THEN s ELSE orphaned[k]
  BY <1>0, <1>k, <1>s DEF OpenRefused, RecordOrphan, Types
<1>5. /\ s \in failed => sess[s] = "gone" /\ keyOf[s] = k
      /\ lease[k] \in {Nobody, orphaned'[k]}
  <2>1. IF s = Nobody THEN lease[k] \in {Nobody, orphaned[k]} ELSE sess[s] = "gone" /\ keyOf[s] = k /\ lease[k] \in {Nobody, s}
    BY <1>r, <1>1, <1>k, <1>s DEF ReqOK
  <2>2. s \in failed => s # Nobody
    <3>1. failed \subseteq Sessions
      BY <1>0 DEF Types
    <3> QED
      BY SMT, <3>1
  <2>3. s # Nobody /\ lease[k] = s => s \in failed
    <3>1. ASSUME s # Nobody, lease[k] = s PROVE s \in failed
      <4>1. s \in Sessions
        BY SMT, <3>1
      <4>2. SessOK(s)
        BY <4>1 DEF TableInv
      <4> QED
        BY <2>1, <3>1, <4>2 DEF SessOK
    <3> QED
      BY <3>1
  <2> QED
    BY <1>4, <2>1, <2>2, <2>3
<1>6. Types'
  BY <1>0, <1>1, <1>2, <1>3, <1>4 DEF Types
<1>7. \A d \in Clients : (Opening(d)' <=> Opening(d) /\ d # c) /\ req'[d].key = req[d].key
  BY <1>1, <1>2, <1>k DEF Opening
<1>8. ReqInv'
  <2>1. ReqOK(c)'
    BY <1>2 DEF ReqOK, Opening
  <2>2. ASSUME NEW d \in Clients, d # c PROVE ReqOK(d)'
    <3>1. ReqOK(d) /\ req'[d] = req[d]
      BY <1>r, <1>2, <2>2
    <3>2. Opening(d) => slot'[req[d].key] = slot[req[d].key] /\ orphaned'[req[d].key] = orphaned[req[d].key]
      BY <1>0, <1>1, <1>3, <1>4, <1>k, <2>2, <3>1 DEF ReqOK, Opening
    <3> HIDE DEF Sessions
    <3> QED
      BY SMT, <1>1, <3>1, <3>2 DEF ReqOK, Opening
  <2> QED
    BY <1>1, <1>7, <2>1, <2>2 DEF TableInv, ReqInv
<1>9. \A j \in Keys : SlotOK(j)'
  <2> SUFFICES ASSUME NEW j \in Keys PROVE SlotOK(j)'
    OBVIOUS
  <2>1. SlotOK(j)
    BY DEF TableInv
  <2> HIDE DEF Sessions
  <2>2. CASE j = k
    <3>1. slot'[k].state = "free" /\ slot'[k].sid = Nobody
      BY SMT, <1>3
    <3>2. orphaned'[k] # Nobody => sess'[orphaned'[k]] = "gone" /\ keyOf'[orphaned'[k]] = k
      BY <1>1, <1>4, <1>5, <2>1, <2>2 DEF SlotOK
    <3>3. lease'[k] # Nobody => keyOf'[lease'[k]] = k /\ sess'[lease'[k]] # "none"
      BY <1>1, <2>1, <2>2 DEF SlotOK
    <3> QED
      BY <1>1, <1>5, <2>2, <3>1, <3>2, <3>3 DEF SlotOK
  <2>3. CASE j # k
    BY <1>1, <1>3, <1>4, <1>7, <1>k, <2>1, <2>3 DEF SlotOK
  <2> QED
    BY <2>2, <2>3
<1>10. \A t \in Sessions : SessOK(t)'
  <2> SUFFICES ASSUME NEW t \in Sessions PROVE SessOK(t)'
    OBVIOUS
  <2>1. SessOK(t)
    BY DEF TableInv
  <2>2. keyOf[t] \in Keys /\ slot[keyOf[t]] # Slot("reserved", Nobody) => slot'[keyOf[t]] = slot[keyOf[t]]
    BY <1>1, <1>3
  <2>3. \A d \in Clients : req[d].at \in {"opened", "selfclose"} => req'[d] = req[d]
    BY <1>1, <1>2
  <2> QED
    BY SMT, <1>1, <2>1, <2>2, <2>3 DEF SessOK, Live
<1>11. EventsInOrder' /\ (\A j \in Keys : LogOK(j)')
  BY <1>1, LogKept DEF Active
<1>12. ShutInv'
  BY <1>1 DEF TableInv, ShutInv, Active
<1> QED
  BY <1>6, <1>8, <1>9, <1>10, <1>11, <1>12 DEF TableInv

\* Shutdown has begun: the open closes the session that it made.
LEMMA OpenEndsClosing ==
  ASSUME TableInv, NEW c \in Clients, OpenEnds(c), closing
  PROVE TableInv'
<1>0. Types /\ \A d \in Clients : Opening(c) /\ Opening(d) /\ req[c].key = req[d].key => c = d
  BY DEF TableInv, ReqInv
<1>r. \A d \in Clients : ReqOK(d)
  BY DEF TableInv, ReqInv
<1>k. PICK k \in Keys : k = req[c].key
  BY <1>r DEF OpenEnds, ReqOK
<1>s. PICK s \in Sessions : s = req[c].sid
  BY <1>r DEF OpenEnds, ReqOK
<1>1. /\ req[c].at = "opened" /\ Opening(c) /\ req[c].op = "open" /\ slot[k] = Slot("reserved", Nobody)
      /\ sess[s] = "live" /\ keyOf[s] = k
      /\ UNCHANGED <<keyOf, failed, lease, next, log, orphaned, inflight, closing, sd, janitor>>
  BY <1>r, <1>k, <1>s DEF OpenEnds, Opening, ReqOK
<1>2. /\ req' \in [Clients -> Requests] /\ \A d \in Clients : d # c => req'[d] = req[d]
      /\ req'[c].at = "selfclose" /\ req'[c].op = "open" /\ req'[c].key = k /\ req'[c].sid = s
  <2> DEFINE r == [req[c] EXCEPT !.at = "selfclose"]
  <2>1. req' = [req EXCEPT ![c] = r] /\ req[c] \in Requests
    BY <1>0, SidType DEF OpenEnds, Moves
  <2>2. r \in Requests /\ r.at = "selfclose" /\ r.op = "open" /\ r.key = k /\ r.sid = s
    BY <1>1, <1>k, <1>s, <2>1 DEF Requests
  <2> HIDE DEF r
  <2> QED
    BY <1>0, <2>1, <2>2 DEF Types
<1>3. /\ slot' \in [Keys -> Slots] /\ slot'[k] = Free /\ \A j \in Keys : j # k => slot'[j] = slot[j]
  <2>1. slot' = [slot EXCEPT ![k] = Free]
    BY <1>k DEF OpenEnds
  <2> QED
    BY <1>0, <2>1, SlotsBuilt DEF Types
<1>4. /\ sess' \in [Sessions -> {"none", "live", "closing", "selfclosing", "closed", "gone"}]
      /\ sess'[s] = "selfclosing" /\ \A t \in Sessions : t # s => sess'[t] = sess[t]
  <2>1. sess' = [sess EXCEPT ![s] = "selfclosing"]
    BY <1>s DEF OpenEnds
  <2> HIDE DEF Sessions
  <2> QED
    BY <1>0, <2>1 DEF Types
<1>6. Types'
  BY <1>0, <1>1, <1>2, <1>3, <1>4 DEF Types
<1>7. \A d \in Clients : (Opening(d)' <=> Opening(d)) /\ req'[d].key = req[d].key
  BY <1>1, <1>2, <1>k DEF Opening
<1>8. ReqInv'
  <2>1. ReqOK(c)'
    BY <1>1, <1>2, <1>3, <1>4 DEF ReqOK, Opening
  <2>2. ASSUME NEW d \in Clients, d # c PROVE ReqOK(d)'
    <3>1. ReqOK(d) /\ req'[d] = req[d]
      BY <1>r, <1>2, <2>2
    <3>2. Opening(d) => slot'[req[d].key] = slot[req[d].key] /\ req[d].key # k
      BY <1>0, <1>1, <1>3, <1>k, <2>2, <3>1 DEF ReqOK, Opening
    <3>3. req[d].sid # Nobody => req[d].sid \in Sessions
      BY <1>0, SidType
    <3>4. req[d].sid \in Sessions /\ req[d].sid # s => sess'[req[d].sid] = sess[req[d].sid]
      BY <1>4
    <3> HIDE DEF Sessions
    <3> QED
      BY SMT, <1>1, <1>4, <3>1, <3>2, <3>3, <3>4 DEF ReqOK, Opening
  <2> QED
    BY <1>1, <1>7, <2>1, <2>2 DEF TableInv, ReqInv
<1>9. \A j \in Keys : SlotOK(j)'
  <2> SUFFICES ASSUME NEW j \in Keys PROVE SlotOK(j)'
    OBVIOUS
  <2>1. SlotOK(j) /\ (lease[j] # Nobody => lease[j] \in Sessions) /\ (orphaned[j] # Nobody => orphaned[j] \in Sessions)
    BY <1>0, HolderType DEF TableInv
  <2>2. \A t \in Sessions : sess[t] # "live" => sess'[t] = sess[t]
    BY <1>1, <1>4
  <2>3. \A t \in Sessions : sess'[t] = "none" => sess[t] = "none"
    BY <1>1, <1>4
  <2> HIDE DEF Sessions
  <2>4. CASE j = k
    <3>1. slot'[k].state = "free" /\ slot'[k].sid = Nobody
      BY SMT, <1>3
    <3> QED
      BY <1>1, <2>1, <2>2, <2>3, <2>4, <3>1 DEF SlotOK
  <2>5. CASE j # k
    BY SMT, <1>1, <1>3, <1>4, <1>7, <2>1, <2>2, <2>3, <2>5 DEF SlotOK
  <2> QED
    BY <2>4, <2>5
<1>10. \A t \in Sessions : SessOK(t)'
  <2>1. SessOK(s)'
    <3>1. SessOK(s)
      BY DEF TableInv
    <3> QED
      BY <1>1, <1>2, <1>4, <3>1 DEF SessOK, Live
  <2>2. ASSUME NEW t \in Sessions, t # s PROVE SessOK(t)'
    <3>1. SessOK(t) /\ sess'[t] = sess[t]
      BY <1>4, <2>2 DEF TableInv
    <3>2. keyOf[t] \in Keys /\ slot[keyOf[t]] # Slot("reserved", Nobody) => slot'[keyOf[t]] = slot[keyOf[t]]
      BY <1>1, <1>3
    <3>3. \A d \in Clients : req[d].at \in {"opened", "selfclose"} /\ req[d].sid = t => req'[d] = req[d]
      BY <1>1, <1>2, <1>s, <2>2
    <3> QED
      BY SMT, <1>1, <3>1, <3>2, <3>3 DEF SessOK, Live
  <2> QED
    BY <2>1, <2>2
<1>11. EventsInOrder' /\ (\A j \in Keys : LogOK(j)')
  <2>1. \A t \in Sessions : Active(t)' <=> Active(t)
    BY <1>1, <1>4 DEF Active
  <2> QED
    BY <1>1, <2>1, LogKept
<1>12. ShutInv'
  <2>1. c \in inflight
    BY <1>1 DEF TableInv, ReqInv
  <2> QED
    BY <1>1, <2>1 DEF TableInv, ShutInv
<1> QED
  BY <1>6, <1>8, <1>9, <1>10, <1>11, <1>12 DEF TableInv

\* The session is entered.
LEMMA OpenEndsEntered ==
  ASSUME TableInv, NEW c \in Clients, OpenEnds(c), ~closing
  PROVE TableInv'
<1>0. Types /\ \A d \in Clients : Opening(c) /\ Opening(d) /\ req[c].key = req[d].key => c = d
  BY DEF TableInv, ReqInv
<1>r. \A d \in Clients : ReqOK(d)
  BY DEF TableInv, ReqInv
<1>k. PICK k \in Keys : k = req[c].key
  BY <1>r DEF OpenEnds, ReqOK
<1>s. PICK s \in Sessions : s = req[c].sid
  BY <1>r DEF OpenEnds, ReqOK
<1>1. /\ req[c].at = "opened" /\ Opening(c) /\ req[c].op = "open" /\ slot[k] = Slot("reserved", Nobody)
      /\ sess[s] = "live" /\ keyOf[s] = k /\ inflight' = inflight \ {c}
      /\ UNCHANGED <<sess, keyOf, failed, lease, next, log, closing, sd, janitor>>
  BY <1>r, <1>k, <1>s DEF OpenEnds, Opening, ReqOK
<1>2. /\ req' \in [Clients -> Requests] /\ \A d \in Clients : d # c => req'[d] = req[d]
      /\ req'[c].at = "answered" /\ req'[c].op = "open" /\ req'[c].key = k
  <2> DEFINE r == [req[c] EXCEPT !.at = "answered", !.answer = "ok"]
  <2>1. req' = [req EXCEPT ![c] = r] /\ req[c] \in Requests /\ "ok" \in Replies
    BY <1>0, SidType DEF OpenEnds, Answers, Replies
  <2>2. r \in Requests /\ r.at = "answered" /\ r.op = "open" /\ r.key = k
    BY <1>1, <1>k, <2>1 DEF Requests
  <2> HIDE DEF r
  <2> QED
    BY <1>0, <2>1, <2>2 DEF Types
<1>3. /\ slot' \in [Keys -> Slots] /\ slot'[k] = Slot("open", s) /\ \A j \in Keys : j # k => slot'[j] = slot[j]
  <2>1. slot' = [slot EXCEPT ![k] = Slot("open", s)]
    BY <1>k, <1>s DEF OpenEnds
  <2> QED
    BY <1>0, <2>1, SlotsBuilt DEF Types
<1>4. /\ orphaned' \in [Keys -> 0..MaxSessions] /\ orphaned'[k] = Nobody
      /\ \A j \in Keys : j # k => orphaned'[j] = orphaned[j]
  <2>1. orphaned' = [orphaned EXCEPT ![k] = Nobody]
    BY <1>k DEF OpenEnds
  <2> QED
    BY <1>0, <2>1, SlotsBuilt DEF Types
<1>6. Types'
  BY <1>0, <1>1, <1>2, <1>3, <1>4 DEF Types
<1>7. \A d \in Clients : (Opening(d)' <=> Opening(d) /\ d # c) /\ req'[d].key = req[d].key
  BY <1>1, <1>2, <1>k DEF Opening
<1>8. ReqInv'
  <2>1. ReqOK(c)'
    BY <1>2 DEF ReqOK, Opening
  <2>2. ASSUME NEW d \in Clients, d # c PROVE ReqOK(d)'
    <3>1. ReqOK(d) /\ req'[d] = req[d]
      BY <1>r, <1>2, <2>2
    <3>2. Opening(d) => slot'[req[d].key] = slot[req[d].key] /\ orphaned'[req[d].key] = orphaned[req[d].key]
      BY <1>0, <1>1, <1>3, <1>4, <1>k, <2>2, <3>1 DEF ReqOK, Opening
    <3> HIDE DEF Sessions
    <3> QED
      BY SMT, <1>1, <3>1, <3>2 DEF ReqOK, Opening
  <2> QED
    BY <1>1, <1>7, <2>1, <2>2 DEF TableInv, ReqInv
<1>9. \A j \in Keys : SlotOK(j)'
  <2> SUFFICES ASSUME NEW j \in Keys PROVE SlotOK(j)'
    OBVIOUS
  <2>1. SlotOK(j)
    BY DEF TableInv
  <2>2. CASE j = k
    <3>1. slot'[k].state = "open" /\ slot'[k].sid = s
      BY SMT, <1>3
    <3> HIDE DEF Sessions
    <3> QED
      BY SMT, <1>1, <1>4, <2>1, <2>2, <3>1 DEF SlotOK
  <2> HIDE DEF Sessions
  <2>3. CASE j # k
    BY SMT, <1>1, <1>3, <1>4, <1>7, <1>k, <2>1, <2>3 DEF SlotOK
  <2> QED
    BY <2>2, <2>3
<1>10. \A t \in Sessions : SessOK(t)'
  <2>1. SessOK(s)'
    <3>1. SessOK(s)
      BY DEF TableInv
    <3> QED
      BY <1>1, <1>3, <3>1 DEF SessOK, Live
  <2>2. ASSUME NEW t \in Sessions, t # s PROVE SessOK(t)'
    <3>1. SessOK(t)
      BY DEF TableInv
    <3>2. keyOf[t] \in Keys /\ slot[keyOf[t]] # Slot("reserved", Nobody) => slot'[keyOf[t]] = slot[keyOf[t]]
      BY <1>1, <1>3
    <3>3. \A d \in Clients : req[d].at \in {"opened", "selfclose"} /\ req[d].sid = t => req'[d] = req[d]
      BY <1>1, <1>2, <1>s, <2>2
    <3> QED
      BY SMT, <1>1, <3>1, <3>2, <3>3 DEF SessOK, Live
  <2> QED
    BY <2>1, <2>2
<1>11. EventsInOrder' /\ (\A j \in Keys : LogOK(j)')
  BY <1>1, LogKept DEF Active
<1>12. ShutInv'
  BY <1>1 DEF TableInv, ShutInv
<1> QED
  BY <1>6, <1>8, <1>9, <1>10, <1>11, <1>12 DEF TableInv

\* Session.Close returns, and has released the lease if it could.
LEMMA ReleasedStep ==
  ASSUME TableInv, NEW s \in Sessions, NEW ok \in BOOLEAN, Released(s, ok),
         sess[s] \in {"closing", "selfclosing"},
         UNCHANGED <<slot, keyOf, orphaned, next, log, req, whole>>
  PROVE TableInv'
<1>0. Types /\ SessOK(s)
  BY DEF TableInv
<1>r. \A d \in Clients : ReqOK(d)
  BY DEF TableInv, ReqInv
<1>k. PICK k \in Keys : k = keyOf[s]
  BY <1>0 DEF SessOK
<1>1. /\ lease[k] = s /\ s \notin failed /\ s # Nobody
      /\ UNCHANGED <<slot, keyOf, orphaned, next, log, req, closing, inflight, sd, janitor>>
  BY SMT, <1>0, <1>k DEF SessOK, Live, whole
<1>2. /\ sess' \in [Sessions -> {"none", "live", "closing", "selfclosing", "closed", "gone"}]
      /\ sess'[s] = "closed" /\ \A t \in Sessions : t # s => sess'[t] = sess[t]
  BY <1>0 DEF Released, Types
<1>3. /\ lease' \in [Keys -> 0..MaxSessions] /\ lease'[k] \in {Nobody, s} /\ \A j \in Keys : j # k => lease'[j] = lease[j]
      /\ lease'[k] = s => s \in failed'
      /\ failed' \subseteq Sessions /\ \A t \in Sessions : t # s => (t \in failed' <=> t \in failed)
  <2>1. CASE ok
    BY <1>0, <1>1, <1>k, <2>1, SlotsBuilt DEF Released, Types
  <2>2. CASE ~ok
    BY <1>0, <1>1, <1>k, <2>2 DEF Released, Types
  <2> QED
    BY <2>1, <2>2
<1>4. Types'
  BY <1>0, <1>1, <1>2, <1>3 DEF Types
<1>5. ReqInv'
  <2>1. ASSUME NEW d \in Clients PROVE ReqOK(d)'
    <3>1. ReqOK(d) /\ req' = req
      BY <1>r, <1>1
    <3>2. req[d].at \in {"opening", "refused"} => req[d].key \in Keys /\ req[d].key # k
      <4>1. Active(s)
        BY DEF Active
      <4> QED
        BY <3>1, <4>1, <1>k, NoneBehind DEF ReqOK
    <3>3. req[d].sid # Nobody => req[d].sid \in Sessions
      BY <1>0, SidType
    <3>4. req[d].sid \in Sessions /\ req[d].sid # s =>
            sess'[req[d].sid] = sess[req[d].sid] /\ (req[d].sid \in failed' <=> req[d].sid \in failed)
      BY <1>2, <1>3
    <3> HIDE DEF Sessions
    <3> QED
      BY SMT, <1>1, <1>2, <1>3, <3>1, <3>2, <3>3, <3>4 DEF ReqOK, Opening
  <2> QED
    BY <1>1, <2>1 DEF TableInv, ReqInv, Opening
<1>6. \A j \in Keys : SlotOK(j)'
  <2> SUFFICES ASSUME NEW j \in Keys PROVE SlotOK(j)'
    OBVIOUS
  <2>1. SlotOK(j) /\ (lease[j] # Nobody => lease[j] \in Sessions) /\ (orphaned[j] # Nobody => orphaned[j] \in Sessions)
    BY <1>0, HolderType DEF TableInv
  <2>2. ~closing /\ slot[j] = Free => j # k
    BY SMT, <1>k, FreeIsLeft DEF Live
  <2> HIDE DEF Sessions
  <2>3. CASE j = k
    BY SMT, <1>1, <1>2, <1>3, <1>k, <2>1, <2>2, <2>3 DEF SlotOK, Opening
  <2>4. CASE j # k
    BY SMT, <1>1, <1>2, <1>3, <2>1, <2>4 DEF SlotOK, Opening
  <2> QED
    BY <2>3, <2>4
<1>7. \A t \in Sessions : SessOK(t)'
  <2>1. SessOK(s)'
    <3>1. \A j \in Keys : j # k => lease[j] # s
      <4> SUFFICES ASSUME NEW j \in Keys, j # k, lease[j] = s PROVE FALSE
        OBVIOUS
      <4>1. SlotOK(j)
        BY DEF TableInv
      <4> QED
        BY <1>1, <1>k, <4>1 DEF SlotOK
    <3> QED
      BY SMT, <1>0, <1>1, <1>2, <1>3, <1>k, <3>1 DEF SessOK, Live
  <2>2. ASSUME NEW t \in Sessions, t # s PROVE SessOK(t)'
    <3>1. SessOK(t) /\ sess'[t] = sess[t] /\ (t \in failed' <=> t \in failed)
      BY <1>2, <1>3, <2>2 DEF TableInv
    <3>2. Active(t) => keyOf[t] # k
      BY <1>k, <2>2, ActiveAlone DEF Active
    <3>3. Active(t) => keyOf[t] \in Keys /\ lease'[keyOf[t]] = lease[keyOf[t]]
      BY <1>3, <3>1, <3>2 DEF SessOK, Active
    <3>4. (\E j \in Keys : lease'[j] = t) => \E j \in Keys : lease[j] = t
      BY SMT, <1>3, <2>2
    <3> HIDE DEF Sessions
    <3> QED
      BY <1>1, <3>1, <3>3, <3>4 DEF SessOK, Live, Active
  <2> QED
    BY <2>1, <2>2
<1>8. \A t \in Sessions : Active(t)' <=> Active(t)
  BY <1>2 DEF Active
<1>9. EventsInOrder' /\ (\A j \in Keys : LogOK(j)')
  BY <1>1, <1>8, LogKept
<1>10. ShutInv'
  BY <1>1, <1>8 DEF TableInv, ShutInv
<1> QED
  BY <1>4, <1>5, <1>6, <1>7, <1>9, <1>10 DEF TableInv

LEMMA SelfCloseStep ==
  ASSUME TableInv, NEW c \in Clients, NEW ok \in BOOLEAN, SelfClose(c, ok)
  PROVE TableInv'
<1>1. ReqOK(c)
  BY DEF TableInv, ReqInv
<1>2. req[c].sid \in Sessions /\ Released(req[c].sid, ok) /\ sess[req[c].sid] \in {"closing", "selfclosing"}
      /\ UNCHANGED <<slot, keyOf, orphaned, next, log, req, whole>>
  BY <1>1 DEF SelfClose, ReqOK
<1> QED
  BY <1>2, ReleasedStep

LEMMA SessionClosesStep ==
  ASSUME TableInv, NEW s \in Sessions, NEW ok \in BOOLEAN, SessionCloses(s, ok)
  PROVE TableInv'
<1>1. Released(s, ok) /\ sess[s] \in {"closing", "selfclosing"} /\ UNCHANGED <<slot, keyOf, orphaned, next, log, req, whole>>
  BY DEF SessionCloses
<1> QED
  BY <1>1, ReleasedStep

\* A session's closed event ends its branch's open one.
LEMMA ClosedLog ==
  ASSUME TableInv, NEW s \in Sessions, sess[s] = "closed", sess' = [sess EXCEPT ![s] = "gone"], keyOf' = keyOf,
         NEW k \in Keys, k = keyOf[s], log' = [log EXCEPT ![k] = Append(@, <<"closed", s>>)]
  PROVE log' \in [Keys -> Seq(Entries)] /\ EventsInOrder' /\ \A j \in Keys : LogOK(j)'
<1>0. Types /\ \A j \in Keys : Alternates(log[j]) /\ LogOK(j)
  BY DEF TableInv, EventsInOrder, Alternates
<1>1. Active(s)
  BY DEF Active
<1>2. log[k] \in Seq(Entries) /\ <<"closed", s>> \in Entries
  BY <1>0 DEF Types, Entries
<1>3. /\ log' \in [Keys -> Seq(Entries)] /\ \A j \in Keys : j # k => log'[j] = log[j]
      /\ log'[k] = Append(log[k], <<"closed", s>>)
  <2>1. Append(log[k], <<"closed", s>>) \in Seq(Entries)
    BY <1>2, AppendFacts
  <2> QED
    BY <1>0, <2>1 DEF Types
<1>4. \A t \in Sessions : Active(t)' <=> Active(t) /\ t # s
  BY <1>0 DEF Active, Types
<1>5. \A t \in Sessions : Active(t) /\ keyOf[t] = k => t = s
  BY <1>1, ActiveAlone
<1>6. Alternates(log[k]) /\ Len(log[k]) % 2 = 1 /\ log[k][Len(log[k])] = <<"opened", s>>
  BY <1>0, <1>1 DEF LogOK
<1>7. Alternates(log'[k]) /\ Len(log'[k]) % 2 = 0
  <2>1. Alternates(Append(log[k], <<"closed", s>>)) /\ Len(Append(log[k], <<"closed", s>>)) % 2 = 0
    BY <1>2, <1>6, AppendClosed
  <2> QED
    BY <1>3, <2>1
<1>8. EventsInOrder'
  <2>1. ASSUME NEW j \in Keys PROVE Alternates(log'[j])
    BY <1>0, <1>3, <1>7
  <2> QED
    BY <2>1 DEF EventsInOrder, Alternates
<1>9. ASSUME NEW j \in Keys PROVE LogOK(j)'
  <2>1. CASE j = k
    <3>1. \A t \in Sessions : ~(Active(t)' /\ keyOf'[t] = k)
      BY <1>4, <1>5
    <3>2. Len(log'[k]) % 2 = 0
      BY <1>7
    <3>3. 0 # 1
      BY SMT
    <3> HIDE DEF Sessions
    <3> QED
      BY <2>1, <3>1, <3>2, <3>3 DEF LogOK
  <2>2. CASE j # k
    <3>1. LogOK(j) /\ log'[j] = log[j]
      BY <1>0, <1>3, <2>2
    <3>2. \A t \in Sessions : Active(t)' /\ keyOf'[t] = j <=> Active(t) /\ keyOf[t] = j
      BY <1>4, <2>2
    <3> HIDE DEF Sessions
    <3> QED
      BY <3>1, <3>2 DEF LogOK
  <2> QED
    BY <2>1, <2>2
<1> QED
  BY <1>3, <1>8, <1>9

LEMMA SelfClosedStep ==
  ASSUME TableInv, NEW c \in Clients, SelfClosed(c)
  PROVE TableInv'
<1>0. Types /\ \A d \in Clients : Opening(c) /\ Opening(d) /\ req[c].key = req[d].key => c = d
  BY DEF TableInv, ReqInv
<1>r. \A d \in Clients : ReqOK(d)
  BY DEF TableInv, ReqInv
<1>k. PICK k \in Keys : k = req[c].key
  BY <1>r DEF SelfClosed, ReqOK
<1>s. PICK s \in Sessions : s = req[c].sid
  BY <1>r DEF SelfClosed, ReqOK
<1>1. /\ req[c].at = "selfclose" /\ Opening(c) /\ req[c].op = "open" /\ slot[k] = Free /\ closing
      /\ sess[s] = "closed" /\ keyOf[s] = k /\ inflight' = inflight \ {c}
      /\ UNCHANGED <<slot, keyOf, failed, lease, orphaned, next, closing, sd, janitor>>
  BY <1>r, <1>k, <1>s DEF SelfClosed, Opening, ReqOK
<1>2. /\ req' \in [Clients -> Requests] /\ \A d \in Clients : d # c => req'[d] = req[d]
      /\ req'[c].at = "answered" /\ req'[c].op = "open" /\ req'[c].key = k
  <2> DEFINE r == [req[c] EXCEPT !.at = "answered", !.answer = "shutting down"]
  <2>1. req' = [req EXCEPT ![c] = r] /\ req[c] \in Requests /\ "shutting down" \in Replies
    BY <1>0, SidType DEF SelfClosed, Answers, Replies
  <2>2. r \in Requests /\ r.at = "answered" /\ r.op = "open" /\ r.key = k
    BY <1>1, <1>k, <2>1 DEF Requests
  <2> HIDE DEF r
  <2> QED
    BY <1>0, <2>1, <2>2 DEF Types
<1>3. sess' = [sess EXCEPT ![s] = "gone"] /\ log' = [log EXCEPT ![k] = Append(@, <<"closed", s>>)]
  BY <1>k, <1>s DEF SelfClosed
<1>4. /\ sess' \in [Sessions -> {"none", "live", "closing", "selfclosing", "closed", "gone"}]
      /\ sess'[s] = "gone" /\ \A t \in Sessions : t # s => sess'[t] = sess[t]
  BY <1>0, <1>3 DEF Types
<1>5. log' \in [Keys -> Seq(Entries)] /\ EventsInOrder' /\ \A j \in Keys : LogOK(j)'
  BY <1>1, <1>3, ClosedLog
<1>6. Types'
  BY <1>0, <1>1, <1>2, <1>4, <1>5 DEF Types
<1>7. \A d \in Clients : (Opening(d)' <=> Opening(d) /\ d # c) /\ req'[d].key = req[d].key
  BY <1>1, <1>2, <1>k DEF Opening
<1>8. ReqInv'
  <2>1. ReqOK(c)'
    BY <1>2 DEF ReqOK, Opening
  <2>2. ASSUME NEW d \in Clients, d # c PROVE ReqOK(d)'
    <3>1. ReqOK(d) /\ req'[d] = req[d] /\ (Opening(d) => req[d].key # k)
      BY <1>0, <1>r, <1>1, <1>2, <1>k, <2>2
    <3>3. req[d].sid # Nobody => req[d].sid \in Sessions
      BY <1>0, SidType
    <3>4. req[d].sid \in Sessions /\ req[d].sid # s => sess'[req[d].sid] = sess[req[d].sid]
      BY <1>4
    <3> HIDE DEF Sessions
    <3> QED
      BY SMT, <1>1, <1>4, <3>1, <3>3, <3>4 DEF ReqOK, Opening
  <2> QED
    BY <1>1, <1>7, <2>1, <2>2 DEF TableInv, ReqInv
<1>9. \A j \in Keys : SlotOK(j)'
  <2> SUFFICES ASSUME NEW j \in Keys PROVE SlotOK(j)'
    OBVIOUS
  <2>1. SlotOK(j) /\ (lease[j] # Nobody => lease[j] \in Sessions) /\ (orphaned[j] # Nobody => orphaned[j] \in Sessions)
    BY <1>0, HolderType DEF TableInv
  <2>2. slot[j].state = "reserved" => \E d \in Clients : Opening(d)' /\ req'[d].key = j
    <3>1. ASSUME slot[j].state = "reserved" PROVE j # k
      BY SMT, <1>1, <3>1
    <3> QED
      BY <1>7, <1>k, <2>1, <3>1 DEF SlotOK
  <2>3. slot[j].state = "closing" => slot[j].sid # s
    <3>1. ASSUME slot[j].state = "closing" PROVE j # k
      BY SMT, <1>1, <3>1
    <3> QED
      BY <1>1, <2>1, <3>1 DEF SlotOK
  <2> HIDE DEF Sessions
  <2> QED
    BY <1>1, <1>4, <2>1, <2>2, <2>3 DEF SlotOK
<1>10. \A t \in Sessions : SessOK(t)'
  <2>1. SessOK(s)'
    <3>1. SessOK(s)
      BY DEF TableInv
    <3> QED
      BY <1>1, <1>4, <3>1 DEF SessOK, Live
  <2>2. ASSUME NEW t \in Sessions, t # s PROVE SessOK(t)'
    <3>1. SessOK(t) /\ sess'[t] = sess[t]
      BY <1>4, <2>2 DEF TableInv
    <3>3. \A d \in Clients : req[d].at \in {"opened", "selfclose"} /\ req[d].sid = t => req'[d] = req[d]
      BY <1>1, <1>2, <1>s, <2>2
    <3> QED
      BY <1>1, <3>1, <3>3 DEF SessOK, Live
  <2> QED
    BY <2>1, <2>2
<1>12. ShutInv'
  <2>1. \A t \in Sessions : Active(t)' => Active(t)
    BY <1>4 DEF Active
  <2> QED
    BY <1>1, <2>1 DEF TableInv, ShutInv
<1> QED
  BY <1>5, <1>6, <1>8, <1>9, <1>10, <1>12 DEF TableInv

\* Open slots are marked closing, with their sessions.
LEMMA MarkedFacts ==
  ASSUME TableInv, NEW ks \in SUBSET Keys, \A k \in ks : slot[k].state = "open", Marked(ks), UNCHANGED keyOf
  PROVE /\ slot' \in [Keys -> Slots]
        /\ sess' \in [Sessions -> {"none", "live", "closing", "selfclosing", "closed", "gone"}]
        /\ \A k \in ks : slot'[k] = Slot("closing", slot[k].sid) /\ slot[k].sid \in Sessions /\ sess'[slot[k].sid] = "closing"
        /\ \A k \in Keys \ ks : slot'[k] = slot[k]
        /\ \A s \in Sessions : sess'[s] = sess[s] \/ (sess[s] = "live" /\ sess'[s] = "closing" /\ keyOf[s] \in ks /\ slot[keyOf[s]] = Slot("open", s))
        /\ \A s \in Sessions : keyOf[s] \in ks /\ slot[keyOf[s]] = Slot("open", s) => sess'[s] = "closing"
<1>0. Types /\ \A k \in Keys : SlotOK(k)
  BY DEF TableInv
<1>1. \A k \in ks : slot[k].sid \in Sessions /\ sess[slot[k].sid] = "live" /\ keyOf[slot[k].sid] = k /\ slot[k] = Slot("open", slot[k].sid)
  <2> SUFFICES ASSUME NEW k \in ks
               PROVE slot[k].sid \in Sessions /\ sess[slot[k].sid] = "live" /\ keyOf[slot[k].sid] = k /\ slot[k] = Slot("open", slot[k].sid)
    OBVIOUS
  <2>1. slot[k] \in Slots
    BY <1>0 DEF Types
  <2>2. slot[k] = Slot("open", slot[k].sid)
    BY <2>1 DEF Slots
  <2> QED
    BY SMT, <1>0, <2>2 DEF SlotOK
<1>2. \A k \in Keys : slot'[k] = IF k \in ks THEN Slot("closing", slot[k].sid) ELSE slot[k]
  BY DEF Marked
<1>3. \A s \in Sessions : sess'[s] = IF \E k \in ks : slot[k].sid = s THEN "closing" ELSE sess[s]
  BY DEF Marked
<1>4. slot' \in [Keys -> Slots]
  <2>1. \A k \in Keys : (IF k \in ks THEN Slot("closing", slot[k].sid) ELSE slot[k]) \in Slots
    BY <1>0, <1>1, SlotsBuilt DEF Types
  <2> HIDE DEF Slot
  <2> QED
    BY <2>1 DEF Marked
<1>5. sess' \in [Sessions -> {"none", "live", "closing", "selfclosing", "closed", "gone"}]
  BY <1>0 DEF Marked, Types
<1>6. \A k \in ks : slot'[k] = Slot("closing", slot[k].sid) /\ slot[k].sid \in Sessions /\ sess'[slot[k].sid] = "closing"
  BY <1>1, <1>2, <1>3
<1>7. \A s \in Sessions : sess'[s] = sess[s] \/ (sess[s] = "live" /\ sess'[s] = "closing" /\ keyOf[s] \in ks /\ slot[keyOf[s]] = Slot("open", s))
  BY SMT, <1>1, <1>3
<1>8. \A s \in Sessions : keyOf[s] \in ks /\ slot[keyOf[s]] = Slot("open", s) => sess'[s] = "closing"
  BY SMT, <1>1, <1>3
<1> QED
  BY <1>2, <1>4, <1>5, <1>6, <1>7, <1>8

\* That leaves everything but the requests and Shutdown's own state.
LEMMA MarkedKeeps ==
  ASSUME TableInv, NEW ks \in SUBSET Keys, \A k \in ks : slot[k].state = "open", Marked(ks),
         UNCHANGED <<keyOf, failed, lease, orphaned, next, log, closing>>,
         \A d \in Clients : (Opening(d)' <=> Opening(d)) /\ (Opening(d) => req'[d] = req[d])
  PROVE /\ \A d \in Clients : req'[d] = req[d] => ReqOK(d)'
        /\ (\A j \in Keys : SlotOK(j)') /\ (\A s \in Sessions : SessOK(s)')
        /\ EventsInOrder' /\ (\A j \in Keys : LogOK(j)') /\ (\A s \in Sessions : Active(s)' <=> Active(s))
<1>0. Types /\ (\A d \in Clients : ReqOK(d)) /\ (\A j \in Keys : SlotOK(j)) /\ (\A s \in Sessions : SessOK(s))
  BY DEF TableInv, ReqInv
<1>1. /\ \A k \in ks : slot'[k] = Slot("closing", slot[k].sid) /\ slot[k].sid \in Sessions /\ sess'[slot[k].sid] = "closing"
      /\ \A k \in Keys \ ks : slot'[k] = slot[k]
      /\ \A s \in Sessions : sess'[s] = sess[s] \/ (sess[s] = "live" /\ sess'[s] = "closing" /\ keyOf[s] \in ks /\ slot[keyOf[s]] = Slot("open", s))
      /\ \A s \in Sessions : keyOf[s] \in ks /\ slot[keyOf[s]] = Slot("open", s) => sess'[s] = "closing"
  BY MarkedFacts
<1>a. ASSUME NEW k \in ks PROVE slot'[k].state = "closing" /\ slot'[k].sid = slot[k].sid
  <2>1. slot'[k] = Slot("closing", slot[k].sid)
    BY <1>1
  <2> QED
    BY SMT, <2>1
<1>b. \A s \in Sessions : sess'[s] = sess[s] \/ (sess[s] = "live" /\ sess'[s] = "closing" /\ keyOf[s] \in ks)
  BY <1>1
<1>c. \A k \in ks : slot[k].sid \in Sessions /\ sess'[slot[k].sid] = "closing"
  BY <1>1
<1>d. \A k \in Keys \ ks : slot'[k] = slot[k]
  BY <1>1
<1>2. \A s \in Sessions : Active(s)' <=> Active(s)
  BY <1>1 DEF Active
<1>3. EventsInOrder' /\ \A j \in Keys : LogOK(j)'
  BY <1>2, LogKept
<1>4. ASSUME NEW d \in Clients, req'[d] = req[d] PROVE ReqOK(d)'
  <2>1. ReqOK(d)
    BY <1>0
  <2>2. Opening(d) => req[d].key \in Keys \ ks
    <3>1. ASSUME Opening(d)
          PROVE  /\ req[d].key \in Keys
                 /\ slot[req[d].key] = Slot("reserved", Nobody) \/ slot[req[d].key] = Free
      BY <2>1, <3>1 DEF ReqOK, Opening
    <3>2. \A k \in ks : slot[k] # Slot("reserved", Nobody) /\ slot[k] # Free
      BY SMT
    <3> QED
      BY <3>1, <3>2
  <2>3. req[d].sid # Nobody => req[d].sid \in Sessions
    BY <1>0, SidType
  <2>4. ASSUME req[d].at = "opened" PROVE sess'[req[d].sid] = "live"
    BY <1>1, <2>1, <2>2, <2>4 DEF ReqOK, Opening
  <2>5. Opening(d) => slot'[req[d].key] = slot[req[d].key]
    BY <1>d, <2>2
  <2>6. req[d].sid # Nobody /\ sess[req[d].sid] # "live" => sess'[req[d].sid] = sess[req[d].sid]
    BY <1>b, <2>3
  <2>7. keyOf' = keyOf /\ failed' = failed /\ lease' = lease /\ orphaned' = orphaned /\ closing' = closing
    OBVIOUS
  <2>8. Nobody \notin Sessions
    BY SMT
  <2> HIDE DEF Sessions, Slot, Nobody, Free
  <2> QED
    BY SMT, <1>4, <2>1, <2>4, <2>5, <2>6, <2>7, <2>8 DEF ReqOK, Opening
<1>5. ASSUME NEW j \in Keys PROVE SlotOK(j)'
  <2>1. SlotOK(j) /\ (lease[j] # Nobody => lease[j] \in Sessions) /\ (orphaned[j] # Nobody => orphaned[j] \in Sessions)
    BY <1>0, HolderType
  <2>2. CASE j \in ks
    <3>1. slot'[j].state = "closing" /\ slot'[j].sid = slot[j].sid /\ slot[j].state = "open"
      BY <1>a, <2>2
    <3>2. slot[j].sid \in Sessions /\ sess'[slot[j].sid] = "closing"
      BY <1>c, <2>2
    <3>3. \A s \in Sessions : (sess'[s] = "none" <=> sess[s] = "none") /\ (sess'[s] = "gone" <=> sess[s] = "gone")
      BY <1>b
    <3> HIDE DEF Sessions, Slot
    <3> QED
      BY SMT, <2>1, <3>1, <3>2, <3>3 DEF SlotOK
  <2>3. CASE j \notin ks
    <3>1. slot'[j] = slot[j]
      BY <1>d, <2>3
    <3>2. \A s \in Sessions : keyOf[s] = j => sess'[s] = sess[s]
      BY <1>b, <2>3
    <3> HIDE DEF Sessions
    <3> QED
      BY <2>1, <3>1, <3>2 DEF SlotOK
  <2> QED
    BY <2>2, <2>3
<1>6. ASSUME NEW s \in Sessions PROVE SessOK(s)'
  <2>1. SessOK(s)
    BY <1>0
  <2>2. \A d \in Clients : req[d].at \in {"opened", "selfclose"} => req'[d] = req[d]
    BY DEF Opening
  <2>3. CASE sess'[s] = sess[s]
    <3>1. Active(s) => keyOf[s] \in Keys /\ (slot[keyOf[s]] \in {Slot("open", s), Slot("closing", s)} => slot'[keyOf[s]] = slot[keyOf[s]])
      <4>1. Active(s) => keyOf[s] \in Keys
        BY <2>1 DEF SessOK, Active
      <4>2. keyOf[s] \in ks => slot[keyOf[s]].state = "open"
        OBVIOUS
      <4>3. keyOf[s] \in ks => slot[keyOf[s]] # Slot("closing", s)
        BY SMT, <4>2
      <4>4. keyOf[s] \in ks /\ slot[keyOf[s]] = Slot("open", s) => sess[s] = "live"
        BY SMT, <1>0, <4>1 DEF SlotOK
      <4> QED
        BY <1>1, <2>3, <4>1, <4>3, <4>4
    <3> HIDE DEF Sessions, Slot
    <3> QED
      BY <2>1, <2>2, <2>3, <3>1 DEF SessOK, Live, Active
  <2>4. CASE sess[s] = "live" /\ sess'[s] = "closing" /\ keyOf[s] \in ks /\ slot[keyOf[s]] = Slot("open", s)
    <3>1. slot'[keyOf[s]] = Slot("closing", s)
      BY SMT, <1>1, <2>4
    <3> QED
      BY <2>1, <2>4, <3>1 DEF SessOK, Live
  <2> QED
    BY <1>1, <2>3, <2>4
<1> QED
  BY <1>2, <1>3, <1>4, <1>5, <1>6

LEMMA CloseEnterStep ==
  ASSUME TableInv, NEW c \in Clients, CloseEnter(c)
  PROVE TableInv'
<1>0. Types /\ ReqOK(c)
  BY DEF TableInv, ReqInv
<1>k. PICK k \in Keys : k = req[c].key
  BY <1>0 DEF CloseEnter, ReqOK
<1>1. /\ SlotOK(k) /\ req[c].at = "enter" /\ req[c].op = "close" /\ ~Opening(c) /\ req \in [Clients -> Requests]
      /\ UNCHANGED <<keyOf, failed, lease, orphaned, next, log, whole>>
  BY <1>0, <1>k DEF CloseEnter, Opening, TableInv, Types
<1>2. CASE Answers(c, "not open") /\ UNCHANGED <<slot, sess>>
  <2>1. UNCHANGED <<table, whole>> /\ "not open" \in Replies
    BY <1>1, <1>2 DEF table, Replies
  <2> QED
    BY <1>1, <1>2, <2>1, AnswerStep
<1>3. CASE /\ slot[k].state = "closing" /\ req' = [req EXCEPT ![c].at = "wait", ![c].sid = slot[k].sid]
           /\ UNCHANGED <<slot, sess>>
  <2>1. UNCHANGED <<table, whole>>
    BY <1>1, <1>3 DEF table
  <2>2. /\ slot[k].sid \in Sessions /\ sess[slot[k].sid] \in {"closing", "closed"} /\ keyOf[slot[k].sid] = k
        /\ slot[k].sid \in 0..MaxSessions
    BY SMT, <1>1, <1>3 DEF SlotOK
  <2> QED
    BY <1>1, <1>3, <1>k, <2>1, <2>2, MoveStep
<1>4. CASE /\ slot[k].state = "open" /\ req[c].want \in {Nobody, slot[k].sid} /\ Marked({k})
           /\ req' = [req EXCEPT ![c].at = "closes", ![c].sid = slot[k].sid]
  <2>s. PICK s \in Sessions : s = slot[k].sid
    BY <1>1, <1>4 DEF SlotOK
  <2>1. /\ req' \in [Clients -> Requests] /\ \A d \in Clients : d # c => req'[d] = req[d]
        /\ req'[c].at = "closes" /\ req'[c].sid = s
        /\ req'[c].op = req[c].op /\ req'[c].key = req[c].key /\ req'[c].want = req[c].want
    <3>1. req' = [req EXCEPT ![c].at = "closes", ![c].sid = s] /\ s \in 0..MaxSessions
      BY SMT, <1>4, <2>s
    <3> QED
      BY <1>1, <3>1, Updated
  <2>2. {k} \in SUBSET Keys /\ \A j \in {k} : slot[j].state = "open"
    BY <1>4
  <2>3. /\ slot' \in [Keys -> Slots]
        /\ sess' \in [Sessions -> {"none", "live", "closing", "selfclosing", "closed", "gone"}]
        /\ sess'[s] = "closing"
    <3>1. UNCHANGED keyOf
      BY <1>1
    <3> QED
      BY <1>4, <2>2, <2>s, <3>1, MarkedFacts
  <2>4. \A d \in Clients : (Opening(d)' <=> Opening(d)) /\ (Opening(d) => req'[d] = req[d]) /\ (Opening(d) => d # c)
    BY <1>1, <2>1 DEF Opening
  <2>5. /\ \A d \in Clients : req'[d] = req[d] => ReqOK(d)'
        /\ (\A j \in Keys : SlotOK(j)') /\ (\A t \in Sessions : SessOK(t)')
        /\ EventsInOrder' /\ (\A j \in Keys : LogOK(j)') /\ (\A t \in Sessions : Active(t)' <=> Active(t))
    <3>1. UNCHANGED <<keyOf, failed, lease, orphaned, next, log, closing>>
      BY <1>1 DEF whole
    <3> QED
      BY <1>4, <2>2, <2>4, <3>1, MarkedKeeps
  <2>6. Types'
    BY <1>0, <1>1, <2>1, <2>3 DEF Types, whole
  <2>7. ReqOK(c)'
    <3>1. keyOf'[s] = k /\ req[c].want \in {Nobody, s} /\ req'[c].key = k /\ req'[c].op = "close"
      BY <1>1, <1>4, <1>k, <2>1, <2>s DEF SlotOK
    <3> QED
      BY <2>1, <2>3, <3>1 DEF ReqOK, Opening
  <2>8. ReqInv'
    <3>1. inflight' = inflight
      BY <1>1 DEF whole
    <3> QED
      BY <2>1, <2>4, <2>5, <2>7, <3>1 DEF TableInv, ReqInv
  <2>9. ShutInv'
    BY <1>1, <2>5 DEF TableInv, ShutInv, whole
  <2> QED
    BY <2>5, <2>6, <2>8, <2>9 DEF TableInv
<1> QED
  BY <1>2, <1>3, <1>4, <1>k DEF CloseEnter

\* The close ends: the branch is free, and its lease is nobody's or known.
LEMMA CloseEndsStep ==
  ASSUME TableInv, NEW s \in Sessions, CloseEnds(s)
  PROVE TableInv'
<1>0. Types /\ SessOK(s)
  BY DEF TableInv
<1>r. \A d \in Clients : ReqOK(d)
  BY DEF TableInv, ReqInv
<1>k. PICK k \in Keys : k = keyOf[s]
  BY <1>0 DEF SessOK, CloseEnds
<1>1. /\ sess[s] = "closed" /\ slot[k] = Slot("closing", s) /\ keyOf[s] = k /\ s # Nobody
      /\ \A d \in Clients : ~(req[d].at = "selfclose" /\ req[d].sid = s)
      /\ UNCHANGED <<keyOf, failed, lease, next, req, closing, inflight, sd, janitor>>
  BY SMT, <1>0, <1>k DEF CloseEnds, SessOK, whole
<1>2. /\ lease[k] \in {Nobody, s} /\ (lease[k] = s => s \in failed)
      /\ slot[k].state = "closing" /\ slot[k].sid = s
  BY SMT, <1>0, <1>1 DEF SessOK
<1>3. /\ slot' \in [Keys -> Slots] /\ slot'[k] = Free /\ \A j \in Keys : j # k => slot'[j] = slot[j]
  <2>1. slot' = [slot EXCEPT ![k] = Free]
    BY <1>1, <1>k DEF CloseEnds
  <2> QED
    BY <1>0, <2>1, SlotsBuilt DEF Types
<1>4. /\ sess' \in [Sessions -> {"none", "live", "closing", "selfclosing", "closed", "gone"}]
      /\ sess'[s] = "gone" /\ \A t \in Sessions : t # s => sess'[t] = sess[t]
  BY <1>0 DEF Types, CloseEnds
<1>5. log' \in [Keys -> Seq(Entries)] /\ EventsInOrder' /\ \A j \in Keys : LogOK(j)'
  <2>1. sess' = [sess EXCEPT ![s] = "gone"] /\ log' = [log EXCEPT ![k] = Append(@, <<"closed", s>>)]
    BY <1>k DEF CloseEnds
  <2> QED
    BY <1>1, <2>1, ClosedLog
<1>6. /\ orphaned' \in [Keys -> 0..MaxSessions] /\ \A j \in Keys : j # k => orphaned'[j] = orphaned[j]
      /\ orphaned'[k] = IF s \in failed THEN s ELSE orphaned[k]
  <2>1. orphaned' = IF s \in failed THEN [orphaned EXCEPT ![k] = s] ELSE orphaned
    BY <1>k DEF CloseEnds, RecordOrphan
  <2>2. orphaned \in [Keys -> 0..MaxSessions] /\ s \in 0..MaxSessions
    BY <1>0, SlotsBuilt DEF Types
  <2> HIDE DEF Sessions
  <2> QED
    BY <2>1, <2>2
<1>7. Types'
  BY <1>0, <1>1, <1>3, <1>4, <1>5, <1>6 DEF Types
<1>8. ReqInv'
  <2>1. ASSUME NEW d \in Clients PROVE ReqOK(d)'
    <3>1. ReqOK(d) /\ req'[d] = req[d]
      BY <1>r, <1>1
    <3>2. Opening(d) => req[d].key \in Keys /\ req[d].key # k
      BY SMT, <1>2, <3>1 DEF ReqOK, Opening
    <3>3. Opening(d) => slot'[req[d].key] = slot[req[d].key] /\ orphaned'[req[d].key] = orphaned[req[d].key]
      BY <1>3, <1>6, <3>2
    <3>4. req[d].sid # Nobody => req[d].sid \in Sessions
      BY <1>0, SidType
    <3>5. req[d].sid \in Sessions /\ req[d].sid # s => sess'[req[d].sid] = sess[req[d].sid]
      BY <1>4
    <3> HIDE DEF Sessions
    <3> QED
      BY SMT, <1>1, <1>4, <3>1, <3>2, <3>3, <3>4, <3>5 DEF ReqOK, Opening
  <2> QED
    BY <1>1, <2>1 DEF TableInv, ReqInv, Opening
<1>9. \A j \in Keys : SlotOK(j)'
  <2> SUFFICES ASSUME NEW j \in Keys PROVE SlotOK(j)'
    OBVIOUS
  <2>1. SlotOK(j) /\ (lease[j] # Nobody => lease[j] \in Sessions) /\ (orphaned[j] # Nobody => orphaned[j] \in Sessions)
    BY <1>0, HolderType DEF TableInv
  <2>2. \A t \in Sessions : sess[t] = "gone" => sess'[t] = "gone"
    BY <1>4
  <2>3. \A t \in Sessions : sess'[t] = "none" => sess[t] = "none"
    BY <1>4
  <2> HIDE DEF Sessions
  <2>4. CASE j = k
    <3>1. slot'[k].state = "free" /\ slot'[k].sid = Nobody
      BY SMT, <1>3
    <3>2. orphaned'[k] # Nobody => sess'[orphaned'[k]] = "gone" /\ keyOf'[orphaned'[k]] = k
      BY <1>1, <1>4, <1>6, <2>1, <2>2, <2>4 DEF SlotOK
    <3>3. lease'[k] \in {Nobody, orphaned'[k]}
      BY <1>1, <1>2, <1>6
    <3> QED
      BY <1>1, <2>1, <2>3, <2>4, <3>1, <3>2, <3>3 DEF SlotOK
  <2>5. CASE j # k
    <3>1. slot'[j] = slot[j] /\ orphaned'[j] = orphaned[j]
      BY <1>3, <1>6, <2>5
    <3>2. \A t \in Sessions : keyOf[t] = j => sess'[t] = sess[t]
      BY <1>1, <1>4, <2>5
    <3> QED
      BY SMT, <1>1, <2>1, <2>2, <2>3, <3>1, <3>2 DEF SlotOK, Opening
  <2> QED
    BY <2>4, <2>5
<1>10. \A t \in Sessions : SessOK(t)'
  <2>1. SessOK(s)'
    BY <1>0, <1>1, <1>4 DEF SessOK, Live
  <2>2. ASSUME NEW t \in Sessions, t # s PROVE SessOK(t)'
    <3>1. SessOK(t) /\ sess'[t] = sess[t]
      BY <1>4, <2>2 DEF TableInv
    <3>2. keyOf[t] \in Keys /\ slot[keyOf[t]].sid = t => slot'[keyOf[t]] = slot[keyOf[t]]
      BY <1>2, <1>3, <2>2
    <3> QED
      BY SMT, <1>1, <3>1, <3>2 DEF SessOK, Live
  <2> QED
    BY <2>1, <2>2
<1>12. ShutInv'
  <2>1. \A t \in Sessions : Active(t)' => Active(t)
    BY <1>4 DEF Active
  <2> QED
    BY <1>1, <2>1 DEF TableInv, ShutInv
<1> QED
  BY <1>5, <1>7, <1>8, <1>9, <1>10, <1>12 DEF TableInv

LEMMA LeaseLapsesStep ==
  ASSUME TableInv, NEW k \in Keys, LeaseLapses(k)
  PROVE TableInv'
<1>0. Types /\ ReqInv /\ (\A j \in Keys : SlotOK(j)) /\ (\A s \in Sessions : SessOK(s))
  BY DEF TableInv
<1>1. /\ lease[k] # Nobody /\ sess[lease[k]] = "gone"
      /\ UNCHANGED <<slot, sess, keyOf, failed, orphaned, next, log, req, closing, inflight, sd, janitor>>
  BY DEF LeaseLapses, whole
<1>2. /\ lease' \in [Keys -> 0..MaxSessions] /\ lease'[k] = Nobody /\ \A j \in Keys : j # k => lease'[j] = lease[j]
  BY <1>0, SlotsBuilt DEF LeaseLapses, Types
<1>3. Types'
  BY <1>0, <1>1, <1>2 DEF Types
<1>4. ReqInv'
  <2>1. ASSUME NEW d \in Clients PROVE ReqOK(d)'
    <3>1. ReqOK(d)
      BY <1>0 DEF ReqInv
    <3>2. req[d].key \in Keys => lease'[req[d].key] \in {Nobody, lease[req[d].key]}
      BY <1>2
    <3> HIDE DEF Sessions
    <3> QED
      BY SMT, <1>1, <3>1, <3>2 DEF ReqOK, Opening
  <2> QED
    BY <1>0, <1>1, <2>1 DEF ReqInv, Opening
<1>5. ASSUME NEW j \in Keys PROVE SlotOK(j)'
  <2>1. SlotOK(j) /\ lease'[j] \in {Nobody, lease[j]}
    BY <1>0, <1>2
  <2> HIDE DEF Sessions
  <2> QED
    BY <1>1, <2>1 DEF SlotOK, Opening
<1>6. ASSUME NEW s \in Sessions PROVE SessOK(s)'
  <2>1. SessOK(s)
    BY <1>0
  <2>2. Live(s) => keyOf[s] \in Keys /\ lease'[keyOf[s]] = lease[keyOf[s]]
    BY <1>1, <1>2, <2>1 DEF SessOK, Live
  <2>3. keyOf[s] \in Keys => lease'[keyOf[s]] \in {Nobody, lease[keyOf[s]]}
    BY <1>2
  <2>4. (\E j \in Keys : lease'[j] = s) => \E j \in Keys : lease[j] = s
    BY SMT, <1>2
  <2> HIDE DEF Sessions
  <2> QED
    BY <1>1, <2>1, <2>2, <2>3, <2>4 DEF SessOK, Live
<1>7. EventsInOrder' /\ (\A j \in Keys : LogOK(j)')
  BY <1>1, LogKept DEF Active
<1>8. ShutInv'
  BY <1>1 DEF TableInv, ShutInv, Active
<1> QED
  BY <1>3, <1>4, <1>5, <1>6, <1>7, <1>8 DEF TableInv

-----------------------------------------------------------------------------
(* The janitor and Shutdown. *)

Shutdowning == [at: {"no", "janitor", "opens", "closes", "returned"}, waits: SUBSET Sessions,
                result: {"none", "ok", "janitor", "timed out", "release failed"}]

\* A step of theirs that marks nothing.
LEMMA ShutStep ==
  ASSUME TableInv, UNCHANGED <<table, req, inflight>>, closing' \in BOOLEAN, closing => closing',
         sd' \in Shutdowning, janitor' \in {"off", "idle", "pass"}, ShutInv'
  PROVE TableInv'
<1> USE DEF table
<1>0. Types /\ ReqInv /\ (\A k \in Keys : SlotOK(k)) /\ (\A s \in Sessions : SessOK(s))
  BY DEF TableInv
<1>1. Types'
  BY <1>0 DEF Types, Shutdowning
<1>2. ReqInv'
  <2>1. ASSUME NEW d \in Clients PROVE ReqOK(d)'
    <3>1. ReqOK(d)
      BY <1>0 DEF ReqInv
    <3> HIDE DEF Sessions
    <3> QED
      BY <3>1 DEF ReqOK, Opening
  <2> QED
    BY <1>0, <2>1 DEF ReqInv, Opening
<1>3. ASSUME NEW k \in Keys PROVE SlotOK(k)'
  <2>1. SlotOK(k)
    BY <1>0
  <2> HIDE DEF Sessions
  <2> QED
    BY <2>1 DEF SlotOK, Opening
<1>4. ASSUME NEW s \in Sessions PROVE SessOK(s)'
  <2>1. SessOK(s)
    BY <1>0
  <2> HIDE DEF Sessions
  <2> QED
    BY <2>1 DEF SessOK, Live
<1>5. EventsInOrder' /\ (\A k \in Keys : LogOK(k)')
  BY LogKept DEF Active
<1> QED
  BY <1>1, <1>2, <1>3, <1>4, <1>5 DEF TableInv

LEMMA JanitorStep ==
  ASSUME TableInv, StartJanitor \/ JanitorTick
  PROVE TableInv'
<1>1. ShutInv /\ sd \in Shutdowning /\ closing \in BOOLEAN
  BY DEF TableInv, Types, Shutdowning
<1>2. /\ UNCHANGED <<table, req, inflight, closing, sd>> /\ janitor' \in {"off", "idle", "pass"}
      /\ sd.at # "no" /\ sd.result = "ok" => janitor' = "off"
  BY <1>1 DEF StartJanitor, JanitorTick, ShutInv
<1>3. ShutInv'
  BY <1>1, <1>2 DEF ShutInv, Active, table
<1> QED
  BY <1>1, <1>2, <1>3, ShutStep

LEMMA StoppingStep ==
  ASSUME TableInv, Shutdown \/ ShutdownJanitor \/ ShutdownReturns \/ ShutdownTimesOut
  PROVE TableInv'
<1>1. ShutInv /\ sd \in Shutdowning /\ closing \in BOOLEAN /\ janitor \in {"off", "idle", "pass"}
  BY DEF TableInv, Types, Shutdowning
<1>2. UNCHANGED <<table, req, inflight, janitor>>
  BY DEF Shutdown, ShutdownJanitor, ShutdownReturns, ShutdownTimesOut
<1>3. \A s \in Sessions : Active(s)' <=> Active(s)
  BY <1>2 DEF Active, table
<1>4. CASE Shutdown
  <2>1. closing' = TRUE /\ sd' \in Shutdowning /\ sd'.at = "janitor" /\ sd'.result = "none"
    BY <1>1, <1>4 DEF Shutdown, Shutdowning, ShutInv
  <2>2. ShutInv'
    BY <2>1 DEF ShutInv
  <2> QED
    BY <1>1, <1>2, <2>1, <2>2, ShutStep
<1>5. CASE ShutdownJanitor
  <2>1. /\ closing' = closing /\ sd' \in Shutdowning /\ sd'.at = "opens" /\ sd.at = "janitor"
        /\ sd'.result = "ok" => janitor = "off"
    BY <1>1, <1>5 DEF ShutdownJanitor, Shutdowning
  <2>2. ShutInv'
    BY <1>1, <1>2, <2>1 DEF ShutInv
  <2> QED
    BY <1>1, <1>2, <2>1, <2>2, ShutStep
<1>6. CASE ShutdownReturns
  <2>1. /\ closing' = closing /\ sd' \in Shutdowning /\ sd'.at = "returned" /\ sd.at = "closes"
        /\ sd'.result = "ok" => sd.result = "ok"
        /\ \A s \in sd.waits : sess[s] = "gone"
    BY <1>1, <1>6 DEF ShutdownReturns, Shutdowning
  <2>2. inflight' = {} /\ \A s \in Sessions : ~Active(s)'
    BY <1>1, <1>2, <1>3, <2>1 DEF ShutInv, Active
  <2>3. ShutInv'
    BY <1>1, <1>2, <2>1, <2>2 DEF ShutInv
  <2> QED
    BY <1>1, <1>2, <2>1, <2>3, ShutStep
<1>7. CASE ShutdownTimesOut
  <2>1. /\ closing' = closing /\ sd' \in Shutdowning /\ sd'.at = "returned" /\ sd.at \in {"opens", "closes"}
        /\ sd'.result = "timed out"
    BY <1>1, <1>7 DEF ShutdownTimesOut, Shutdowning
  <2>2. ShutInv'
    BY <1>1, <2>1 DEF ShutInv
  <2> QED
    BY <1>1, <1>2, <2>1, <2>2, ShutStep
<1> QED
  BY <1>4, <1>5, <1>6, <1>7

\* Shutdown marks what is open, and waits for every session there is.
LEMMA ShutdownMarksStep ==
  ASSUME TableInv, ShutdownMarks
  PROVE TableInv'
<1> DEFINE open == {k \in Keys : slot[k].state = "open"}
           both == {k \in Keys : slot[k].state \in {"open", "closing"}}
           waits == {slot[k].sid : k \in both}
<1>0. Types /\ ReqInv /\ ShutInv /\ sd \in Shutdowning
  BY DEF TableInv, Types, Shutdowning
<1>1. /\ sd.at = "opens" /\ inflight = {} /\ Marked(open)
      /\ UNCHANGED <<keyOf, failed, lease, orphaned, next, log, req, closing, inflight, janitor>>
  BY DEF ShutdownMarks
<1>2. sd' = [sd EXCEPT !.at = "closes", !.waits = waits]
  <2>1. both = open \cup {k \in Keys : slot[k].state = "closing"}
    OBVIOUS
  <2> QED
    BY <2>1 DEF ShutdownMarks
<1>3. waits \in SUBSET Sessions
  <2>1. \A k \in both : slot[k].sid \in Sessions
    BY DEF TableInv, SlotOK
  <2> HIDE DEF both
  <2> QED
    BY <2>1
<1>4. ASSUME NEW s \in Sessions, Active(s) PROVE s \in waits
  <2>1. SessOK(s) /\ \A c \in Clients : ~Opening(c)
    BY <1>0, <1>1 DEF TableInv, ReqInv
  <2>2. keyOf[s] \in Keys /\ (slot[keyOf[s]] = Slot("open", s) \/ slot[keyOf[s]] = Slot("closing", s))
    BY <1>4, <2>1 DEF SessOK, Active, Opening
  <2>3. keyOf[s] \in both /\ slot[keyOf[s]].sid = s
    BY SMT, <2>2
  <2> HIDE DEF both
  <2> QED
    BY <2>3
<1> HIDE DEF waits, both
<1>5. sd' \in Shutdowning /\ sd'.at = "closes" /\ sd'.waits = waits /\ sd'.result = sd.result
  BY <1>0, <1>2, <1>3 DEF Shutdowning
<1>6. open \in SUBSET Keys /\ \A k \in open : slot[k].state = "open"
  OBVIOUS
<1> HIDE DEF open
<1>7. /\ slot' \in [Keys -> Slots]
      /\ sess' \in [Sessions -> {"none", "live", "closing", "selfclosing", "closed", "gone"}]
  BY <1>1, <1>6, MarkedFacts
<1>8. /\ \A d \in Clients : req'[d] = req[d] => ReqOK(d)'
      /\ (\A j \in Keys : SlotOK(j)') /\ (\A t \in Sessions : SessOK(t)')
      /\ EventsInOrder' /\ (\A j \in Keys : LogOK(j)') /\ (\A t \in Sessions : Active(t)' <=> Active(t))
  <2>1. \A d \in Clients : (Opening(d)' <=> Opening(d)) /\ (Opening(d) => req'[d] = req[d])
    BY <1>1 DEF Opening
  <2> QED
    BY <1>1, <1>6, <2>1, MarkedKeeps
<1>9. Types'
  BY <1>0, <1>1, <1>5, <1>7 DEF Types, Shutdowning
<1>10. ReqInv'
  BY <1>0, <1>1, <1>8 DEF ReqInv, Opening
<1>11. ShutInv'
  BY <1>0, <1>1, <1>4, <1>5, <1>8 DEF ShutInv
<1> QED
  BY <1>8, <1>9, <1>10, <1>11 DEF TableInv

-----------------------------------------------------------------------------
(* The theorems. *)

LEMMA StepHolds ==
  ASSUME TableInv, NEW c \in Clients, Step(c)
  PROVE TableInv'
<1>1. CASE OpenEnds(c)
  BY <1>1, OpenEndsClosing, OpenEndsEntered
<1>2. CASE (\E released \in BOOLEAN : SessionOpenFails(c, released)) \/ \E ok \in BOOLEAN : SelfClose(c, ok)
  BY <1>2, SessionOpenFailsStep, SelfCloseStep
<1>3. CASE OpenEnter(c) \/ OpenWaited(c) \/ SessionOpens(c) \/ SessionRefused(c) \/ OpenRefused(c) \/ SelfClosed(c)
  BY <1>3, OpenEnterStep, OpenWaitedStep, SessionOpensStep, SessionRefusedStep, OpenRefusedStep, SelfClosedStep
<1>4. CASE CloseEnter(c) \/ CloseAnswers(c) \/ AtRest(c) \/ ForkEnter(c) \/ ForkFlushes(c) \/ Ran(c) \/ Answered(c)
  BY <1>4, CloseEnterStep, CloseAnswersStep, AtRestStep, ForkEnterStep, ForkFlushesStep, RanStep, AnsweredStep
<1> QED
  BY <1>1, <1>2, <1>3, <1>4 DEF Step

LEMMA Stutters ==
  ASSUME TableInv, UNCHANGED vars
  PROVE TableInv'
<1>1. /\ UNCHANGED <<table, req, inflight>> /\ closing' = closing /\ sd' = sd /\ janitor' = janitor
      /\ ShutInv /\ closing \in BOOLEAN /\ sd \in Shutdowning /\ janitor \in {"off", "idle", "pass"}
  BY DEF vars, table, TableInv, Types, Shutdowning
<1>2. ShutInv'
  BY <1>1 DEF ShutInv, Active, table
<1> QED
  BY <1>1, <1>2, ShutStep

LEMMA NextHolds ==
  ASSUME TableInv, [Next]_vars
  PROVE TableInv'
<1>1. CASE \E c \in Clients : Step(c) \/ WaitTimesOut(c)
  BY <1>1, StepHolds, WaitTimesOutStep
<1>2. CASE \E c \in Clients : \E op \in {"open", "close", "atrest", "fork"}, k \in Keys, want \in 0..MaxSessions :
             Call(c, op, k, want)
  BY <1>2, CallStep
<1>3. CASE \E s \in Sessions : Closer(s)
  BY <1>3, SessionClosesStep, CloseEndsStep DEF Closer
<1>4. CASE \E k \in Keys : LeaseLapses(k)
  BY <1>4, LeaseLapsesStep
<1>5. CASE StartJanitor \/ JanitorTick \/ Shutdown \/ Stopping \/ ShutdownTimesOut
  BY <1>5, JanitorStep, StoppingStep, ShutdownMarksStep DEF Stopping
<1>6. CASE UNCHANGED vars
  BY <1>6, Stutters
<1> QED
  BY <1>1, <1>2, <1>3, <1>4, <1>5, <1>6 DEF Next

\* The table, the requests, the leases, the events and Shutdown's bookkeeping
\* agree after every section under s.mu and every call outside it.
THEOREM TableAgrees == Spec => []TableInv
<1>1. Init => TableInv
  BY InitHolds
<1>2. TableInv /\ [Next]_vars => TableInv'
  BY NextHolds
<1> QED
  BY <1>1, <1>2, PTL DEF Spec

\* A branch has one session at a time, and from its open until its Close has
\* returned its slot is claimed: opOpen reserves the slot before the lease is
\* taken, and closeSlot frees it after the lease is released.
THEOREM BranchesAreClaimed == Spec => []Claimed
<1>1. TableInv => Claimed
  <2> SUFFICES ASSUME TableInv, NEW s \in Sessions, NEW t \in Sessions, Live(s)
               PROVE /\ Live(t) /\ keyOf[s] = keyOf[t] => s = t
                     /\ sess[s] # "selfclosing" => slot[keyOf[s]] # Free
    BY DEF Claimed
  <2>1. Live(t) /\ keyOf[s] = keyOf[t] => s = t
    BY ActiveAlone DEF Live, Active
  <2>2. sess[s] # "selfclosing" => slot[keyOf[s]] # Free
    BY FreeIsLeft
  <2> QED
    BY <2>1, <2>2
<1> QED
  BY <1>1, TableAgrees, PTL

\* What opOpen, opClose, refuseIfClaimed, the events and openRefusal tell a
\* client is true of the sessions and of the leases in the store.
THEOREM ClientsMayRely == Spec => []SessionsTrue
<1>1. ASSUME TableInv PROVE SessionsTrue
  <2>0. /\ Types /\ (\A c \in Clients : ReqOK(c)) /\ (\A k \in Keys : SlotOK(k)) /\ (\A s \in Sessions : SessOK(s))
        /\ EventsInOrder
    BY <1>1 DEF TableInv, ReqInv
  <2>1. OpensAlone
    <3> SUFFICES ASSUME NEW c \in Clients, req[c].at = "opening" PROVE ~Live(lease[req[c].key])
      BY DEF OpensAlone
    <3>1. req[c].key \in Keys /\ lease[req[c].key] \in {Nobody, orphaned[req[c].key]}
      BY <2>0 DEF ReqOK
    <3> QED
      BY <2>0, <3>1 DEF SlotOK, Live
  <2>2. CloseTrue
    <3> SUFFICES ASSUME NEW c \in Clients
                 PROVE /\ req[c].at = "closes" => req[c].want \in {Nobody, req[c].sid}
                       /\ req[c].op = "close" /\ req[c].at = "answered" /\ req[c].answer = "ok" =>
                            sess[req[c].sid] = "gone" /\ lease[req[c].key] # req[c].sid
      BY DEF CloseTrue
    <3>1. ReqOK(c)
      BY <2>0
    <3>2. CASE req[c].op = "close" /\ req[c].at = "answered" /\ req[c].answer = "ok"
      <4>1. /\ req[c].key \in Keys /\ req[c].sid \in Sessions /\ sess[req[c].sid] = "gone"
            /\ req[c].sid \notin failed
        BY <3>1, <3>2 DEF ReqOK
      <4>2. SessOK(req[c].sid)
        BY <2>0, <4>1
      <4> QED
        BY <3>2, <4>1, <4>2 DEF SessOK
    <3> QED
      BY <3>1, <3>2 DEF ReqOK
  <2>3. OrphansKnown
    BY <2>0 DEF OrphansKnown, SlotOK
  <2>4. AtRestAlone
    BY <2>0 DEF AtRestAlone, ReqOK
  <2> QED
    BY <2>0, <2>1, <2>2, <2>3, <2>4 DEF SessionsTrue
<1> QED
  BY <1>1, TableAgrees, PTL

\* A Shutdown that returns without an error has joined the janitor, every open
\* in flight and every close, whoever began it, and has left no lease but one
\* whose release failed.
THEOREM ShutdownIsClean == Spec => []ShutdownClean
<1>1. ASSUME TableInv PROVE ShutdownClean
  <2> SUFFICES ASSUME sd.at = "returned", sd.result = "ok"
               PROVE /\ \A s \in Sessions : ~Live(s) /\ sess[s] # "closed"
                     /\ \A k \in Keys : lease[k] = Nobody \/ lease[k] \in failed
                     /\ janitor = "off"
    BY DEF ShutdownClean
  <2>1. janitor = "off" /\ \A s \in Sessions : ~Active(s)
    BY <1>1 DEF TableInv, ShutInv
  <2>2. \A s \in Sessions : ~Live(s) /\ sess[s] # "closed"
    BY <2>1 DEF Live, Active
  <2>3. ASSUME NEW k \in Keys, lease[k] # Nobody PROVE lease[k] \in failed
    <3>1. Types /\ SlotOK(k)
      BY <1>1 DEF TableInv
    <3>2. PICK s \in Sessions : s = lease[k]
      BY <2>3, <3>1, HolderType
    <3>3. SessOK(s) /\ ~Active(s) /\ sess[s] # "none"
      BY <1>1, <2>1, <2>3, <3>1, <3>2 DEF TableInv, SlotOK
    <3>4. sess[s] = "gone"
      BY <3>1, <3>3 DEF Types, Active
    <3> QED
      BY <3>2, <3>3, <3>4 DEF SessOK
  <2> QED
    BY <2>1, <2>2, <2>3
<1> QED
  BY <1>1, TableAgrees, PTL
=============================================================================

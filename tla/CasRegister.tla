----------------------------- MODULE CasRegister -----------------------------
(***************************************************************************)
(* What a Backend promises for one key that is only written conditionally: *)
(* every call takes effect at once or not at all, and an error, a refusal  *)
(* or a caller's death before that moment leaves the key alone             *)
(* (store.Backend, store.ConditionalDeleter, store.SettledWriter).         *)
(***************************************************************************)
EXTENDS Naturals

CONSTANTS Procs, Values, Absent

VARIABLES content,   \* what the key holds, or Absent
          call,      \* each process's call: the expected and the new content
          result     \* "none" while a call has had no effect yet

casVars == <<content, call, result>>

Contents == Values \cup {Absent}

\* No conditional call expects the key absent and leaves it so.
Calls == {c \in [old: Contents, new: Contents] : c.old # Absent \/ c.new # Absent}

NoCall == [old |-> Absent, new |-> Absent]

CasInit ==
  /\ content \in Contents
  /\ call = [p \in Procs |-> NoCall]
  /\ result = [p \in Procs |-> "none"]

Invoke(p, c) ==
  /\ call[p] = NoCall
  /\ call' = [call EXCEPT ![p] = c]
  /\ UNCHANGED <<content, result>>

Apply(p) ==
  /\ call[p] # NoCall /\ result[p] = "none"
  /\ content = call[p].old
  /\ content' = call[p].new
  /\ result' = [result EXCEPT ![p] = "ok"]
  /\ UNCHANGED call

Refuse(p) ==
  /\ call[p] # NoCall /\ result[p] = "none"
  /\ content # call[p].old
  /\ result' = [result EXCEPT ![p] = "refused"]
  /\ UNCHANGED <<content, call>>

Abort(p) ==
  /\ call[p] # NoCall /\ result[p] = "none"
  /\ result' = [result EXCEPT ![p] = "error"]
  /\ UNCHANGED <<content, call>>

\* The call returns, or its process is gone.
Finish(p) ==
  /\ call[p] # NoCall
  /\ call' = [call EXCEPT ![p] = NoCall]
  /\ result' = [result EXCEPT ![p] = "none"]
  /\ UNCHANGED content

CasNext ==
  \E p \in Procs : \/ \E c \in Calls : Invoke(p, c)
                   \/ Apply(p) \/ Refuse(p) \/ Abort(p) \/ Finish(p)

CasSpec == CasInit /\ [][CasNext]_casVars
=============================================================================

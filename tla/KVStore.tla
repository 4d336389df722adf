------------------------------ MODULE KVStore ------------------------------
(***************************************************************************)
(* What pedrodb::DB promises its clients: every operation on the map takes *)
(* effect at one instant between its call and its return, whatever other   *)
(* threads, rotation and compaction do (linearizability).                  *)
(***************************************************************************)
EXTENDS Integers

CONSTANTS
  Keys, Values, Empty, Threads,
  Idle,          \* no request, no answer
  GetMayFail     \* whether a Get may return an error instead of an answer

VARIABLES
  store,  \* the value of every key, or Empty
  req,    \* the request a thread has open
  ans     \* its answer, once the request has taken effect

kvvars == <<store, req, ans>>

Request ==
  [op : {"put"}, key : Keys, value : Values]
    \cup [op : {"delete", "get"}, key : Keys, value : {Empty}]

Reply(status, value) == [status |-> status, value |-> value]

KVInit ==
  /\ store = [k \in Keys |-> Empty]
  /\ req = [t \in Threads |-> Idle]
  /\ ans = [t \in Threads |-> Idle]

Invoke(t, r) ==
  /\ req[t] = Idle
  /\ req' = [req EXCEPT ![t] = r]
  /\ UNCHANGED <<store, ans>>

Pending(t, op) == req[t] # Idle /\ ans[t] = Idle /\ req[t].op = op

Put(t) ==
  /\ Pending(t, "put")
  /\ store' = [store EXCEPT ![req[t].key] = req[t].value]
  /\ ans' = [ans EXCEPT ![t] = Reply("kOk", Empty)]
  /\ UNCHANGED req

\* Delete tells whether there was a value.
Delete(t) ==
  /\ Pending(t, "delete")
  /\ store' = [store EXCEPT ![req[t].key] = Empty]
  /\ ans' = [ans EXCEPT ![t] =
       Reply(IF store[req[t].key] = Empty THEN "kNotFound" ELSE "kOk", Empty)]
  /\ UNCHANGED req

Get(t) ==
  /\ Pending(t, "get")
  /\ LET v == store[req[t].key] IN
     ans' = [ans EXCEPT ![t] =
       IF v = Empty THEN Reply("kNotFound", Empty) ELSE Reply("kOk", v)]
  /\ UNCHANGED <<store, req>>

\* A write on a read-only database or a failing disk has no effect.
WriteFails(t) ==
  /\ Pending(t, "put") \/ Pending(t, "delete")
  /\ \E s \in {"kNotSupported", "kIOError"} :
       ans' = [ans EXCEPT ![t] = Reply(s, Empty)]
  /\ UNCHANGED <<store, req>>

\* Where it may fail, a Get can lose the answer it had found.
GetFails(t) ==
  /\ GetMayFail
  /\ req[t] # Idle /\ req[t].op = "get"
  /\ ans[t] # Idle /\ ans[t].status = "kOk"
  /\ \E s \in {"kIOError", "kCorruption"} :
       ans' = [ans EXCEPT ![t] = Reply(s, Empty)]
  /\ UNCHANGED <<store, req>>

Respond(t) ==
  /\ req[t] # Idle
  /\ ans[t] # Idle
  /\ req' = [req EXCEPT ![t] = Idle]
  /\ ans' = [ans EXCEPT ![t] = Idle]
  /\ UNCHANGED store

KVStep(t) ==
  \/ \E r \in Request : Invoke(t, r)
  \/ Put(t) \/ Delete(t) \/ Get(t)
  \/ WriteFails(t) \/ GetFails(t)
  \/ Respond(t)

KVNext == \E t \in Threads : KVStep(t)

KVSpec == KVInit /\ [][KVNext]_kvvars
=============================================================================

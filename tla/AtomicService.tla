--------------------------- MODULE AtomicService ---------------------------
(***************************************************************************)
(* What a server promises its clients: a request takes effect at one       *)
(* instant, entirely or not at all and never twice, and if it is answered, *)
(* the answer tells which.  A client that hears nothing knows nothing: its *)
(* request may have taken effect.  A request may look at the database      *)
(* before, once, and take effect by what it saw.                           *)
(***************************************************************************)
CONSTANTS Workers,              \* requests the server can be serving at a time
          Requests,             \* the requests clients send
          NoRequest,            \* what an idle worker serves
          Nothing,              \* what a request has seen before it looks
          InitialDb,            \* the database it starts with
          Shown(_, _),          \* Shown(r, d): what r may see of d
          Effect(_, _, _, _, _) \* Effect(r, s, o, d, e): from d to e, having seen s

VARIABLES
    db,       \* the committed database
    req,      \* the request each worker is serving
    seen,     \* what it has seen
    verdict,  \* the answer its effect calls for, "none" before it has taken effect
    out       \* what it has answered, "pending" until it has

serviceVars == <<db, req, seen, verdict, out>>

Verdicts == {"approved", "declined", "done"}
Outcomes == Verdicts \cup {"none", "pending", "refused", "failed", "lost"}

Init ==
    /\ db = InitialDb
    /\ req = [w \in Workers |-> NoRequest]
    /\ seen = [w \in Workers |-> Nothing]
    /\ verdict = [w \in Workers |-> "none"]
    /\ out = [w \in Workers |-> "none"]

Submit(w, r) ==
    /\ out[w] # "pending"
    /\ req' = [req EXCEPT ![w] = r]
    /\ out' = [out EXCEPT ![w] = "pending"]
    /\ UNCHANGED <<db, seen, verdict>>

\* A request that is refused as soon as it is read.
TurnAway(w) ==
    /\ out[w] # "pending"
    /\ out' = [out EXCEPT ![w] = "refused"]
    /\ UNCHANGED <<db, req, seen, verdict>>

Look(w) ==
    /\ out[w] = "pending" /\ seen[w] = Nothing /\ verdict[w] = "none"
    /\ \E s \in Shown(req[w], db) : seen' = [seen EXCEPT ![w] = s]
    /\ UNCHANGED <<db, req, verdict, out>>

\* The instant a request takes effect.
TakeEffect(w) ==
    /\ out[w] = "pending" /\ verdict[w] = "none"
    /\ \E o \in Verdicts :
        Effect(req[w], seen[w], o, db, db') /\ verdict' = [verdict EXCEPT ![w] = o]
    /\ UNCHANGED <<req, seen, out>>

\* The worker is done with its request, with outcome o.
Close(w, o) ==
    /\ out' = [out EXCEPT ![w] = o]
    /\ req' = [req EXCEPT ![w] = NoRequest]
    /\ seen' = [seen EXCEPT ![w] = Nothing]
    /\ verdict' = [verdict EXCEPT ![w] = "none"]
    /\ UNCHANGED db

\* The answer to a request that has taken effect.
Tell(w) == out[w] = "pending" /\ verdict[w] # "none" /\ Close(w, verdict[w])

\* The answer to one that changes nothing.
Dismiss(w) ==
    /\ out[w] = "pending" /\ verdict[w] = "none"
    /\ \E o \in Verdicts \cup {"refused", "failed"} :
        Effect(req[w], seen[w], o, db, db) /\ Close(w, o)

\* The client is gone, before the effect of its request or after it.
Abandon(w) == out[w] = "pending" /\ Close(w, "lost")

\* The process dies: no request in progress is answered, nor takes effect any more.
Lose ==
    /\ out' = [w \in Workers |-> IF out[w] = "pending" THEN "lost" ELSE out[w]]
    /\ req' = [w \in Workers |-> NoRequest]
    /\ seen' = [w \in Workers |-> Nothing]
    /\ verdict' = [w \in Workers |-> "none"]
    /\ UNCHANGED db

Next ==
    \/ \E w \in Workers :
        \/ Look(w) \/ TakeEffect(w) \/ Tell(w) \/ Dismiss(w) \/ Abandon(w) \/ TurnAway(w)
        \/ \E r \in Requests : Submit(w, r)
    \/ Lose

Spec == Init /\ [][Next]_serviceVars
=============================================================================

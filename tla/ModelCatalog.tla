---------------------------- MODULE ModelCatalog ----------------------------
(***************************************************************************)
(* What the model manager promises its clients, with no cache, no files    *)
(* and no handler steps: a catalog of models by id, and requests that each *)
(* take effect at one instant, the instant of their answer.                *)
(***************************************************************************)
CONSTANTS Clients, Contents, Ids, None, Errors, NoReply

VARIABLES
  catalog,   \* the registered content of each id
  answer     \* each client's last answer

vars == <<catalog, answer>>

Init ==
  /\ catalog = [i \in Ids |-> None]
  /\ answer = [k \in Clients |-> NoReply]

Tell(k, op, code, id, content) ==
  answer' = [answer EXCEPT ![k] = [op |-> op, code |-> code, id |-> id, of |-> content]]

Ask(k) == answer' = [answer EXCEPT ![k] = NoReply] /\ UNCHANGED catalog

\* Registering a new id publishes a content under it; registering an id that is
\* taken tells the client what it already stands for.
Register(k, id, c) ==
  /\ catalog[id] = None
  /\ catalog' = [catalog EXCEPT ![id] = c]
  /\ Tell(k, "register", "SUCCESS", id, c)

RegisterAgain(k, id) ==
  /\ catalog[id] # None
  /\ Tell(k, "register", "SUCCESS", id, catalog[id])
  /\ UNCHANGED catalog

Unregister(k, id) ==
  /\ catalog[id] # None
  /\ catalog' = [catalog EXCEPT ![id] = None]
  /\ Tell(k, "unregister", "SUCCESS", id, None)

\* Inference runs on the content that is registered when it is answered.
Predict(k, id) ==
  /\ catalog[id] # None
  /\ Tell(k, "predict", "SUCCESS", id, catalog[id])
  /\ UNCHANGED catalog

List(k) == Tell(k, "list", "SUCCESS", None, None) /\ UNCHANGED catalog

Refuse(k) ==
  /\ \E op \in {"register", "unregister", "predict"}, code \in Errors :
       Tell(k, op, code, None, None)
  /\ UNCHANGED catalog

Close == catalog' = [i \in Ids |-> None] /\ UNCHANGED answer

Restart == catalog' = [i \in Ids |-> None] /\ answer' = [k \in Clients |-> NoReply]

Next ==
  \/ \E k \in Clients :
       \/ Ask(k) \/ List(k) \/ Refuse(k)
       \/ \E id \in Ids :
            \/ RegisterAgain(k, id) \/ Unregister(k, id) \/ Predict(k, id)
            \/ \E c \in Contents : Register(k, id, c)
  \/ Close \/ Restart

Spec == Init /\ [][Next]_vars

=============================================================================

-------------------------- MODULE OncePublication --------------------------
(***************************************************************************)
(* What an Idempotency-Key promises to its client: the requests that carry *)
(* the key publish at most once between them, and every one that is        *)
(* answered with a publication is answered with that one, and asked for    *)
(* exactly its content.                                                    *)
(***************************************************************************)
CONSTANTS Requests,   \* requests that carry the key
          Inputs,     \* contents and parameters they may carry
          None        \* no answer yet

VARIABLES input,      \* what each request asks to publish
          published,  \* the requests whose publication is committed
          answer      \* None, "refused", or the publication a request is answered with

Init ==
    /\ input \in [Requests -> Inputs]
    /\ published = {}
    /\ answer = [p \in Requests |-> None]

Publish(p) ==
    /\ published = {}
    /\ published' = {p}
    /\ UNCHANGED <<input, answer>>

Answer(p) ==
    /\ answer[p] = None
    /\ \/ answer' = [answer EXCEPT ![p] = "refused"]
       \/ \E v \in published :
             /\ input[v] = input[p]
             /\ answer' = [answer EXCEPT ![p] = v]
    /\ UNCHANGED <<input, published>>

Next == \E p \in Requests : Publish(p) \/ Answer(p)

Spec == Init /\ [][Next]_<<input, published, answer>>

=============================================================================

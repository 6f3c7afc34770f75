--------------------------- MODULE OrderPlacement ---------------------------
(***************************************************************************)
(* What the rest of the backend may rely on when it sends an order         *)
(* (perplSession.ts 330-337): the exchange places an order it was asked    *)
(* for or refuses it, once, and the answer the caller is given is true.    *)
(* "unanswered" promises nothing.  PerplSession implements this            *)
(* specification over sockets that come and go.                            *)
(*                                                                         *)
(* Placed means forwarded to the chain (code 0 of an mt 3, line 19): an    *)
(* order that then fails there is only logged (256-264) and told to no one.*)
(* FlowEngine has that as its fault orderFails.                            *)
(***************************************************************************)
CONSTANT Orders

VARIABLES asked, placed, refused, answer

placementVars == <<asked, placed, refused, answer>>

PlacementInit ==
    /\ asked = {} /\ placed = {} /\ refused = {}
    /\ answer = [o \in Orders |-> "none"]

Ask(o) ==
    /\ o \notin asked
    /\ asked' = asked \cup {o}
    /\ UNCHANGED <<placed, refused, answer>>

Place(o) ==
    /\ o \in asked \ (placed \cup refused)
    /\ placed' = placed \cup {o}
    /\ UNCHANGED <<asked, refused, answer>>

Refuse(o) ==
    /\ o \in asked \ (placed \cup refused)
    /\ refused' = refused \cup {o}
    /\ UNCHANGED <<asked, placed, answer>>

(* One caller is answered, and may ask for its next order with that.       *)
Answer(o, told) ==
    /\ o \in asked /\ answer[o] = "none"
    /\ told = "accepted" => o \in placed
    /\ told = "refused" => o \in refused
    /\ answer' = [answer EXCEPT ![o] = told]
    /\ asked \subseteq asked'
    /\ UNCHANGED <<placed, refused>>

PlacementNext ==
    \E o \in Orders :
        \/ Ask(o) \/ Place(o) \/ Refuse(o)
        \/ \E told \in {"accepted", "refused", "unanswered"} : Answer(o, told)

PlacementSpec == PlacementInit /\ [][PlacementNext]_placementVars
=============================================================================

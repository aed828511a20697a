----------------------------- MODULE ApiContract -----------------------------
(***************************************************************************)
(* What an API promises to who calls it: a call is carried out at most     *)
(* once, as what was asked and for somebody who may ask it, and the caller *)
(* is told the response to that, whole, or gives up.  A call that was given*)
(* up may still be carried out.                                            *)
(***************************************************************************)
CONSTANTS
    Exchanges,      \* the calls
    Asks, NoAsk,    \* what may be asked; a call not made yet
    None,           \* what was not carried out
    Deeds(_)        \* the ways an ask may be carried out

VARIABLES
    asked,      \* per call: what was asked, or NoAsk
    carried,    \* per call: the deed and its response, or None
    told        \* per call: whether it is over, and the response

contract == <<asked, carried, told>>

Open == [over |-> FALSE, response |-> {}]
Over(response) == [over |-> TRUE, response |-> response]

Ask(x, a) ==
    /\ asked[x] = NoAsk
    /\ asked' = [asked EXCEPT ![x] = a]
    /\ UNCHANGED carried
    /\ told' \in {told, [told EXCEPT ![x] = Over({})]}      \* refused at once

(* The response is for the one who carries it out to choose.               *)
CarryOut(x) ==
    /\ asked[x] # NoAsk /\ carried[x] = None
    /\ carried'[x] # None /\ carried'[x].deed \in Deeds(asked[x])
    /\ carried' = [carried EXCEPT ![x] = carried'[x]]
    /\ UNCHANGED <<asked, told>>

(* A response that is none is an error.                                    *)
Tell(x) ==
    /\ carried[x] # None /\ ~told[x].over
    /\ told' = [told EXCEPT ![x] = Over(carried[x].response)]
    /\ UNCHANGED <<asked, carried>>

GiveUp(x) ==
    /\ asked[x] # NoAsk /\ ~told[x].over
    /\ told' = [told EXCEPT ![x] = Over({})]
    /\ UNCHANGED <<asked, carried>>

Init ==
    /\ asked = [x \in Exchanges |-> NoAsk]
    /\ carried = [x \in Exchanges |-> None]
    /\ told = [x \in Exchanges |-> Open]

Next ==
    \E x \in Exchanges :
        \/ \E a \in Asks : Ask(x, a)
        \/ CarryOut(x) \/ Tell(x) \/ GiveUp(x)

Spec == Init /\ [][Next]_contract
=============================================================================

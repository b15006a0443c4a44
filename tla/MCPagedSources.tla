--------------------------- MODULE MCPagedSources ---------------------------
(* PagedSources with two databases, of which the first has a page whose     *)
(* blocks nest deeper than is allowed or in themselves; and with a channel  *)
(* with a thread, a reply of which is shown in the channel, and a notice    *)
(* that has a reply.                                                       *)
EXTENDS PagedSources, Functions

Deep == [d1 |-> <<"p1">>, d2 |-> <<"p2">>, p1 |-> <<"b1", "b4">>, p2 |-> <<>>,
         b1 |-> <<"b2">>, b2 |-> <<"b3">>, b3 |-> <<>>, b4 |-> <<>>]

Cyclic == [d1 |-> <<"p1">>, p1 |-> <<"b1">>, b1 |-> <<"b2">>, b2 |-> <<"b1">>]

Channel == [c1 |-> <<"m1", "r2", "j", "m2">>, m1 |-> <<"m1", "r1", "r2">>,
            m2 |-> <<"m2">>, j |-> <<"j", "r3">>,
            r1 |-> <<>>, r2 |-> <<>>, r3 |-> <<>>]

(* The nodes that may have no text; the others have. *)
Some(service, tops, listings, optional, notices) ==
  {[service |-> service, roots |-> tops, children |-> listings,
    kind |-> [n \in DOMAIN listings |->
                IF n \in blank THEN "blank" ELSE IF n \in notices THEN "notice" ELSE "text"]] :
     blank \in SUBSET optional}

MCRemotes ==
  Some("notion", <<"d1", "d2">>, Deep, {"b1", "p2"}, {})
    \cup Some("notion", <<"d1">>, Cyclic, {"p1", "b2"}, {})
    \cup Some("slack", <<"c1">>, Channel, {"m1", "r2"}, {"j"})
=============================================================================

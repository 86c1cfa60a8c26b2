------------------------------ MODULE MCRouter ------------------------------
(* Two services and two names: n1 leads from a to b, and n2 from b to the   *)
(* callee of route r1. Requests of every form, all for one route.           *)
EXTENDS Router, TLC

CONSTANTS a, b, n1, n2, h1, h2, r1

Ok(app, host) == [st |-> "ok", app |-> app, host |-> host]

MCRel == [e \in Apps \X Names |->
            CASE e = <<a, n1>> -> Ok(b, NoHost)
              [] e = <<b, n2>> -> Ok(a, h1)
              [] e = <<a, n2>> -> Ok(a, h2)
              [] OTHER -> NoTarget]

MCNewRel ==
    { <<<<a, n1>>, Ok(a, h1)>>, <<<<b, n2>>, Ok(a, NoHost)>>,
      <<<<a, n2>>, [NoTarget EXCEPT !.st = "bad"]>> }

Request(f, s) == [form |-> f, route |-> r1, from |-> a, stack |-> s]

MCRequests ==
    { Request("chain", <<n1, n2>>), Request("direct", <<n2>>) }
    \cup { Request(f, <<>>) : f \in {"rejected", "panics", "refused"} }
=============================================================================

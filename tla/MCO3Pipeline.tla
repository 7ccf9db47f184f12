--------------------------- MODULE MCO3Pipeline ---------------------------
(***************************************************************************)
(* O3Pipeline for programs of a few instructions on two registers.           *)
(***************************************************************************)
EXTENDS O3Pipeline

CONSTANTS r1, r2

Inst(k, d, s) == [kind |-> k, dst |-> d, src |-> s]

\* Behind a branch that was mispredicted: instructions that take registers and
\* entries, a load; a serializing instruction; a branch mispredicted as well.
Wrong ==
    {<<Inst("nonSpec", r1, r1), Inst("op", r1, r2), Inst("load", r2, r1)>>,
     <<Inst("serial", r1, r2), Inst("op", r2, r1)>>,
     <<Inst("after", r1, r2), Inst("nonSpec", r2, r1), Inst("fault", r2, r1)>>,
     <<Inst("op", r1, r2), Inst("branch", None, r1), Inst("op", r2, r1)>>}

Branching ==
    {<<Inst("op", r1, r2), Inst("branch", None, r1), Inst("op", r2, r1)>>,
     <<Inst("load", r1, r2), Inst("branch", None, r1), Inst("load", r2, r1)>>,
     <<Inst("serial", r2, r1), Inst("branch", None, r2), Inst("op", r1, r2)>>}

\* The branch may be executed before or after the older instruction makes commit
\* squash everything.
Overtaken ==
    {<<Inst("fault", r1, r2), Inst("branch", None, r2), Inst("after", r1, r1)>>,
     <<Inst("squashAfter", r1, r2), Inst("branch", None, r2), Inst("op", r1, r1)>>}

Straight ==
    {<<Inst("op", r1, r1), Inst("serial", r2, r1), Inst("op", r1, r2),
       Inst("op", r2, r1)>>,
     <<Inst("op", r1, r1), Inst("after", r2, r1), Inst("op", r1, r2),
       Inst("op", r2, r1)>>,
     <<Inst("load", r1, r1), Inst("load", r2, r1), Inst("load", r1, r2),
       Inst("op", r1, r1)>>,
     <<Inst("load", r1, r2), Inst("fault", r2, r1), Inst("op", r1, r2),
       Inst("op", r1, r1)>>,
     <<Inst("op", r1, r2), Inst("squashAfter", r2, r1), Inst("op", r1, r2),
       Inst("nonSpec", r2, r2)>>}

Programs ==
    [program : Branching, wrong : Wrong]
    \cup [program : Overtaken \cup Straight, wrong : {<<Inst("op", r1, r2)>>}]
=============================================================================

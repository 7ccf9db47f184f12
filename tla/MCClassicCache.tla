-------------------------- MODULE MCClassicCache --------------------------
(* Two or three caches and a few requests of their processors. *)
EXTENDS ClassicCache, TLC

CONSTANTS c1, c2, c3

R == [cmd |-> "ReadReq", bytes |-> "word"]
W == [cmd |-> "WriteReq", bytes |-> "word"]
L == [cmd |-> "WriteReq", bytes |-> "line"]
A == [cmd |-> "WriteReq", bytes |-> "other"]
LL == [cmd |-> "LoadLockedReq", bytes |-> "word"]
SC == [cmd |-> "StoreCondReq", bytes |-> "word"]

MCPorts == <<c1, c2, c3>>

Setup(programs, filters, full, busy) ==
    {[program |-> c1 :> p[1] @@ c2 :> p[2] @@ c3 :> p[3], filter |-> f,
      full |-> full, busy |-> busy] : p \in programs, f \in filters}

\* Reads and writes with and without a filter, either busy victims or a full
\* write buffer; more requests than an MSHR has targets; store conditionals,
\* with writes of the same and of other words in between; a writer of whole
\* lines among readers; a single write.
MCSetups ==
    Setup({<<a, b, c>> : a \in {<<W, R>>, <<R, W>>, <<W, W>>},
                         b \in {<<W>>, <<R>>}, c \in {<<W>>, <<R>>}},
          BOOLEAN, FALSE, TRUE)
    \cup Setup({<<<<W, W>>, <<R>>, <<W>>>>, <<<<R, W>>, <<W>>, <<R>>>>},
               {TRUE}, TRUE, FALSE)
    \cup Setup({<<<<R, W, R>>, <<W>>, <<R>>>>, <<<<W, R, W>>, <<R, W>>, <<>>>>},
               {TRUE}, FALSE, TRUE)
    \cup Setup({<<a, b, <<W>>>> : a \in {<<LL, SC>>, <<LL, W, SC>>, <<LL, A, SC>>},
                                  b \in {<<LL, SC>>, <<W>>}},
               {TRUE}, FALSE, TRUE)
    \cup Setup({<<<<L, R>>, <<R>>, <<R>>>>, <<<<R, L>>, <<R, R>>, <<>>>>},
               {FALSE}, FALSE, TRUE)
    \cup Setup({<<<<W>>, <<>>, <<>>>>}, {FALSE}, FALSE, TRUE)

\* Two writers, one of them of the whole line.
LineSetups == Setup({<<<<W>>, <<L>>, <<R>>>>}, {FALSE}, FALSE, FALSE)

\* A write buffer that is full when a block that was only in tempBlock is
\* written back.
FullSetups == Setup({<<<<W, W>>, <<>>, <<R>>>>}, {FALSE}, TRUE, TRUE)
=============================================================================

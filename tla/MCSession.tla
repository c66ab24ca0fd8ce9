------------------------------ MODULE MCSession ------------------------------
(***************************************************************************)
(* Small instances of Session for TLC.                                     *)
(***************************************************************************)
EXTENDS Session

Single == {1}
SingleAndPair == {1, 2}

\* Nothing goes wrong on a direct path; i and r messages, short timeouts.
Plain(i, r) ==
    [messages |-> [e \in Endpoints |-> IF e = "initiator" THEN i ELSE r],
     sizes |-> {1}, faults |-> 0, kinds |-> {}, stray |-> FALSE, retx |-> {}, drops |-> 0,
     prompt |-> FALSE, cover |-> 0, hops |-> 0, last |-> 1, send_timeout |-> 1, recv_timeout |-> 1]
Faulty(i, r, n, k) == [Plain(i, r) EXCEPT !.faults = n, !.kinds = k]
\* Time for every attempt, and nothing but waiting takes time.
Patient(s) == [s EXCEPT !.prompt = TRUE, !.send_timeout = 5, !.recv_timeout = 2]
Network == {"lose", "swap", "duplicate"}

\* Two sends of one endpoint or one of each; late handshake message; sends and
\* reads that the socket refuses; applications that change the timeout as they
\* like.  Repeated datagrams with both sending: only while they wait for ACKs.
SmallScenarios ==
    {[Faulty(2, 0, 1, Network) EXCEPT !.stray = TRUE],
     [Faulty(1, 0, 2, Network) EXCEPT !.stray = TRUE],
     Faulty(1, 1, 1, {"lose", "swap"}),
     [Faulty(1, 1, 1, Network) EXCEPT !.recv_timeout = 0],
     Faulty(2, 0, 1, {"refuse"}), Faulty(1, 1, 1, {"refuse"}),
     [Plain(2, 0) EXCEPT !.retx = RetxValues]}

\* A lossy path; the loss test; a two-hop onion path that full frames do not fit;
\* cover traffic on a path that refuses a send.
LiveScenarios ==
    {[Faulty(1, 0, 1, {"lose"}) EXCEPT !.stray = TRUE],
     Patient([Plain(1, 1) EXCEPT !.drops = 2, !.sizes = Sizes]),
     Patient([Plain(2, 0) EXCEPT !.hops = 2, !.sizes = Sizes]),
     Patient([Faulty(0, 0, 1, {"refuse"}) EXCEPT !.cover = 1])}

OneLoss == {Patient(Faulty(1, 1, 1, {"lose"}))}
Balanced == {[Patient(Plain(1, 1)) EXCEPT !.cover = 1, !.recv_timeout = 4]}
TwoHops == {[Plain(1, 0) EXCEPT !.hops = 2, !.last = 1000]}
==============================================================================

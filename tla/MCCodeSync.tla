---- MODULE MCCodeSync ----
EXTENDS CodeSync

\* Limits(s, r, c) bounds the requests, their retries and the crashes.
Limits(s, r, c) == sends = s /\ resends = r /\ crashes = c

\* The server with its maintenance, its browsers, and one computer.
Family ==
  \/ InitWith(0) /\ timer /\ ~local /\ files = Empty /\ Limits(2, 1, 1)
  \/ InitWith(2) /\ timer /\ ~local /\ files = Empty /\ Limits(2, 0, 1)
  \/ InitWith(2) /\ ~timer /\ ~local /\ files = Empty /\ Limits(3, 1, 0)
  \/ InitWith(1) /\ ~timer /\ local /\ files # Empty /\ Limits(1, 0, 0)
  \/ InitWith(2) /\ ~timer /\ local /\ Limits(1, 0, 1)

MCSpec == Family /\ [][Next]_vars /\ Fairness
====

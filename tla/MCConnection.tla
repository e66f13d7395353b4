---------------------------- MODULE MCConnection ----------------------------
(***************************************************************************)
(* Small instances of Connection: up to three requests, a buffer of six    *)
(* units.                                                                  *)
(***************************************************************************)
EXTENDS Connection

Request(line, head, length, body, valid) ==
  [line |-> line, headers |-> head > 1, head |-> head, length |-> length,
   body |-> body, valid |-> valid, frauds |-> IF valid THEN body ELSE 0]

ReadyRequest == Request("GET /ready", 2, NoLength, 0, FALSE)
SmallFraud   == Request("POST /fraud-score", 2, 2, 2, TRUE)
FullFraud    == Request("POST /fraud-score", 2, 4, 4, TRUE)

\* Requests after which the connection goes on; one fills the whole buffer.
Good == {ReadyRequest, SmallFraud, FullFraud,
         Request("GET /ready", 6, NoLength, 0, FALSE)}

\* Requests that end it: one unit too large, a negative length, headers too
\* large, the body rejected or empty, no length, unknown, no header line.
Bad == {Request("POST /fraud-score", 2, 5, 5, TRUE),
        Request("POST /fraud-score", 2, -1, 1, TRUE),
        Request("POST /fraud-score", 7, 1, 1, TRUE),
        Request("GET /ready", 8, NoLength, 0, FALSE),
        Request("POST /fraud-score", 3, 2, 2, FALSE),
        Request("POST /fraud-score", 2, 0, 0, FALSE),
        Request("POST /fraud-score", 2, NoLength, 3, TRUE),
        Request("other", 2, NoLength, 1, FALSE),
        Request("POST /fraud-score", 1, NoLength, 1, TRUE)}

\* Two good requests, then any one.
ThreeRequests == {<<a, b, z>> : a \in Good, b \in Good, z \in Good \cup Bad}

\* The bare HTTP/1.0 probe: a request line and no header.
BareReady == Request("GET /ready", 1, NoLength, 0, FALSE)

BareReadyFirst == {<<BareReady, a, b>> : a \in Good, b \in Good}
=============================================================================

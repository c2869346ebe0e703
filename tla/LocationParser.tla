--------------------------- MODULE LocationParser ---------------------------
(***************************************************************************)
(* parse_location (location.rs).  A location is written as a scheme, up to *)
(* and with "://", and a sequence of characters, of which only ":", "@"    *)
(* and "/" are told apart; scheme "" is a text that starts with none.      *)
(***************************************************************************)
EXTENDS Naturals, Sequences

Schemes == {"file", "resp3", "http", "https", "other", ""}

\* What parse_location returns.
NoAuth == <<>>
Path(path) == [kind |-> "path", path |-> path]
Resp3(endpoint, auth) == [kind |-> "resp3", endpoint |-> endpoint, auth |-> auth]
Http(scheme, rest) == [kind |-> "http", base_url |-> <<scheme, rest>>]
BadLocation == [kind |-> "bad"]

Positions(s, c) == {i \in 1 .. Len(s) : s[i] = c}
First(s, c) == CHOOSE i \in Positions(s, c) : \A j \in Positions(s, c) : i <= j
Last(s, c) == CHOOSE i \in Positions(s, c) : \A j \in Positions(s, c) : i >= j
Before(s, i) == SubSeq(s, 1, i - 1)
After(s, i) == SubSeq(s, i + 1, Len(s))

\* Mutant: the credentials end at the first "@".
AuthEnd_First(rest) == First(rest, "@")

\* rfind: the credentials end at the last "@".
AuthEnd(rest) == Last(rest, "@")

WithEndpoint(endpoint, auth) ==
    IF endpoint = <<>> THEN BadLocation ELSE Resp3(endpoint, auth)

ParseResp3(rest) ==
    IF Positions(rest, "@") = {} THEN WithEndpoint(rest, NoAuth)
    ELSE LET creds == Before(rest, AuthEnd(rest))
             colon == First(creds, ":")
         IN  IF Positions(creds, ":") = {} THEN BadLocation
             ELSE WithEndpoint(After(rest, AuthEnd(rest)),
                               <<Before(creds, colon), After(creds, colon)>>)

HasScheme(rest) == \E i \in 1 .. Len(rest) - 2 : SubSeq(rest, i, i + 2) = <<":", "/", "/">>

ParseLocation(scheme, rest) ==
    CASE scheme = "file" -> Path(rest)
      [] scheme = "resp3" -> ParseResp3(rest)
      [] scheme \in {"http", "https"} -> Http(scheme, rest)
      [] scheme = "other" -> BadLocation
      [] scheme = "" -> IF HasScheme(rest) THEN BadLocation ELSE Path(rest)

-----------------------------------------------------------------------------
\* Every way to read a resp3 text as the documentation of parse_location has
\* it: host:port with an optional user:pass@ in front of it.  A user has no ":",
\* a host no "@".
Separators(rest) ==
    {p \in [colon : Positions(rest, ":"), at : Positions(rest, "@")] :
       /\ p.colon < p.at /\ p.at < Len(rest)
       /\ Positions(Before(rest, p.colon), ":") = {}
       /\ Positions(After(rest, p.at), "@") = {}}

Readings(rest) ==
    (IF rest # <<>> /\ Positions(rest, "@") = {} THEN {Resp3(rest, NoAuth)} ELSE {})
    \cup
    {Resp3(After(rest, p.at), <<Before(rest, p.colon), SubSeq(rest, p.colon + 1, p.at - 1)>>) :
       p \in Separators(rest)}
=============================================================================

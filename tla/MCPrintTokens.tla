--------------------------- MODULE MCPrintTokens ---------------------------
(* Files of every lexeme, and of up to five pieces around line markers.     *)
EXTENDS PrintTokens

Lexeme(s) == [p |-> "lexeme", s |-> s]
Space == [p |-> "space"]
NL == [p |-> "newline"]
MarkerAt(n, f) == <<[p |-> "marker", line |-> n, file |-> f], NL>>
End == <<[p |-> "eof"]>>

Pieces == {<<Space>>, <<NL>>, <<Lexeme("x")>>, MarkerAt(7, "b.h"), MarkerAt(3, "a.c")}
Bodies == UNION {[1 .. n -> Pieces] : n \in 0 .. 5}

\* Markers begin a line and white space is one token.
Lexed(f) ==
  \A i \in 2 .. Len(f) : /\ f[i].p = "marker" => f[i - 1].p = "newline"
                         /\ f[i].p = "space" => f[i - 1].p # "space"

MCFiles ==
  {f \in {m \o FlattenSeq(b) \o End : m \in {<<>>, MarkerAt(1, "a.c")}, b \in Bodies} : Lexed(f)}
    \cup {MarkerAt(1, "a.c") \o <<Lexeme(Lexemes[i]), Space, Lexeme(Lexemes[j])>> \o End :
            i, j \in DOMAIN Lexemes}
=============================================================================

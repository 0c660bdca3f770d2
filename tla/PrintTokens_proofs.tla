------------------------- MODULE PrintTokens_proofs -------------------------
(***************************************************************************)
(* What holds of the printer for every file, proved with TLAPS: the tokens *)
(* are printed with the kind, line, file and flags that clang gives them.  *)
(***************************************************************************)
EXTENDS PrintTokens, FiniteSetTheorems, TLAPS

(* What the printer knows when it comes to a piece.                        *)

\* The names of the lexemes, and of what is no lexeme.
Names == {"symbolic", "eof"} \cup {ClangKinds[k] : k \in 1 .. 34}
OutLine == [name : Names, file : STRING \cup {NoFile}, line : Int, start : BOOLEAN, space : BOOLEAN]

FileIsRead ==
  /\ src \in Files
  /\ at \in 1 .. Len(src) + 1
  /\ variant \in {"clang", "antlr"}
  /\ \/ tokens = <<>>
     \/ tokens = [i \in DOMAIN src |-> [type |-> TypeOf(src[i]), text |-> src[i]]]

AfterMarker == at > 1 /\ src[at - 1].p = "marker"

\* The flags tell what the last piece was, but for the first.
FlagsAreTrue ==
  /\ startOfLine \in BOOLEAN /\ lastIsWhitespace \in BOOLEAN /\ lastIsDirective \in BOOLEAN
  /\ at > 1 => (lastIsWhitespace <=> src[at - 1].p = "space")
  /\ at > 1 => (lastIsDirective <=> src[at - 1].p = "marker")
  /\ at \in DOMAIN src /\ ~AfterMarker => (startOfLine <=> StartsLine(at))

\* On a marker's own line the printer is one line ahead.
LineIsPresumed ==
  /\ Marker(at) \in 0 .. at - 1
  /\ Marker(at) # 0 => src[Marker(at)].p = "marker"
  /\ curFileName = File(at)
  /\ IF AfterMarker THEN Marker(at) = at - 1 /\ line = src[at - 1].line
     ELSE \/ line = PresumedLine(at)
          \/ Marker(at) = 0 /\ at > 1 /\ src[1].p = "newline" /\ line = PresumedLine(at) - 1

IInv == FileIsRead /\ outFile \in Seq(OutLine) /\ FlagsAreTrue /\ LineIsPresumed /\ PrintedAsClang

-----------------------------------------------------------------------------
(* The table of names has each lexeme's type, and no two of them meet.      *)

LEMMA ThereAre34 == DOMAIN Lexemes = 1 .. 34
BY SMTT(60) DEF Lexemes

LEMMA LexemeIs ==
  ASSUME NEW s \in ToSet(Lexemes)
  PROVE  (CHOOSE k \in DOMAIN Lexemes : Lexemes[k] = s) \in 1 .. 34
<1>2. \E k \in DOMAIN Lexemes : Lexemes[k] = s
  BY Zenon DEF ToSet
<1>. QED
  BY <1>2, ThereAre34, Zenon

LEMMA NamesAreClangs ==
  ASSUME NEW k \in 1 .. 34
  PROVE  /\ tokenType2ClangStr(TypesOf[k]) = ClangKinds[k]
         /\ TypesOf[k] \notin {EOF, Directive, Whitespace, Newline}
<1>1. TypesOf[k] \notin {EOF, Directive, Whitespace, Newline}
  BY DEF TypesOf, EOF, Directive, Whitespace, Newline
<1>2. tokenType2ClangStr(TypesOf[k]) = ClangKinds[k]
  BY DEF TypesOf, ClangKinds, tokenType2ClangStr
<1>. QED
  BY <1>1, <1>2

LEMMA PieceIs ==
  ASSUME NEW f \in Files, NEW i \in DOMAIN f
  PROVE  /\ f[i].p \in {"marker", "space", "newline", "lexeme", "eof"}
         /\ f[i].p = "marker" => /\ f[i].line \in Nat /\ f[i].file \in STRING
                                 /\ i < Len(f) /\ f[i + 1].p = "newline"
         /\ f[i].p = "lexeme" => f[i].s \in ToSet(Lexemes)
         /\ f[i].p = "eof" => i = Len(f)
<1>1. f[i] \in Piece
  BY FilesAreLexed
<1>2. CASE f[i] \in [p : {"space", "newline", "eof"}]
  BY <1>2, FilesAreLexed
<1>3. CASE f[i] \in [p : {"marker"}, line : Nat, file : STRING]
  BY <1>3, FilesAreLexed
<1>4. CASE f[i] \in [p : {"lexeme"}, s : ToSet(Lexemes)]
  BY <1>4, FilesAreLexed
<1>. QED
  BY <1>1, <1>2, <1>3, <1>4 DEF Piece

LEMMA TypeTells ==
  ASSUME NEW f \in Files, NEW i \in DOMAIN f
  PROVE  /\ TypeOf(f[i]) = Directive <=> f[i].p = "marker"
         /\ TypeOf(f[i]) = Whitespace <=> f[i].p = "space"
         /\ TypeOf(f[i]) = Newline <=> f[i].p = "newline"
         /\ TypeOf(f[i]) = EOF <=> f[i].p = "eof"
         /\ f[i].p = "lexeme" =>
              tokenType2ClangStr(TypeOf(f[i])) = ClangKinds[CHOOSE k \in DOMAIN Lexemes : Lexemes[k] = f[i].s]
<1>. DEFINE p == f[i].p
            l == CHOOSE k \in DOMAIN Lexemes : Lexemes[k] = f[i].s
<1>1. p \in {"marker", "space", "newline", "lexeme", "eof"}
  BY PieceIs, Zenon
<1>2. CASE p = "lexeme"
  <2>1. f[i].s \in ToSet(Lexemes)
    BY <1>2, PieceIs, Zenon
  <2>2. l \in 1 .. 34
    BY <2>1, LexemeIs, Zenon
  <2>3. TypeOf(f[i]) = TypesOf[l]
    BY <1>2 DEF TypeOf
  <2>. QED
    BY <1>2, <2>2, <2>3, NamesAreClangs
<1>3. CASE p # "lexeme"
  BY <1>1, <1>3 DEF TypeOf, EOF, Directive, Whitespace, Newline
<1>. QED
  BY <1>2, <1>3

-----------------------------------------------------------------------------
(* How clang's account grows by a piece.                                    *)

LEMMA BeforeNext ==
  ASSUME NEW i \in Nat \ {0}, NEW p
  PROVE  Before(i + 1, p) = IF src[i].p = p THEN Before(i, p) \cup {i} ELSE Before(i, p)
BY DEF Before

LEMMA MarkerNext ==
  ASSUME NEW i \in Nat \ {0}
  PROVE  Marker(i + 1) = IF src[i].p = "marker" THEN i ELSE Marker(i)
<1>1. CASE src[i].p = "marker"
  <2>. DEFINE S == Before(i, "marker") \cup {i}
  <2>1. Before(i + 1, "marker") = S
    BY <1>1, BeforeNext
  <2>2. i \in S /\ \A y \in S : y \in Int /\ i >= y
    BY DEF Before
  <2>. HIDE DEF S
  <2>3. Max(S) = i
    <3>. DEFINE m == Max(S)
    <3>1. \E x \in S : \A y \in S : x >= y
      BY <2>2
    <3>2. m \in S /\ \A y \in S : m >= y
      BY <3>1, Zenon DEF Max
    <3>. HIDE DEF m
    <3>3. m = i
      BY <2>2, <3>2
    <3>. QED
      BY <3>3 DEF m
  <2>4. S # {}
    BY <2>2
  <2>. QED
    BY <1>1, <2>1, <2>3, <2>4, Zenon DEF Marker
<1>2. CASE src[i].p # "marker"
  <2>1. Before(i + 1, "marker") = Before(i, "marker")
    BY <1>2, BeforeNext
  <2>. QED
    BY <1>2, <2>1, Zenon DEF Marker
<1>. QED
  BY <1>1, <1>2

LEMMA NoneBeforeFirst ==
  /\ Marker(1) = 0 /\ File(1) = NoFile /\ PresumedLine(1) = 1 /\ StartsLine(1) /\ Place(0) = 0
<1>1. \A p : Before(1, p) = {}
  BY DEF Before
<1>2. Marker(1) = 0
  BY <1>1 DEF Marker
<1>3. {j \in Before(1, "newline") : j > Marker(1)} = {}
  BY <1>1
<1>4. {j \in 1 .. 0 : Printed(j)} = {}
  OBVIOUS
<1>5. Cardinality({}) = 0
  BY FS_EmptySet
<1>. QED
  BY <1>2, <1>3, <1>4, <1>5 DEF File, PresumedLine, StartsLine, Place

\* The newlines that count, and the tokens that are printed.
Newlines(i) == {j \in Before(i, "newline") : j > Marker(i)}
PrintedTo(i) == {j \in 1 .. i : Printed(j)}

LEMMA AreFinite ==
  ASSUME NEW i \in Nat
  PROVE  /\ IsFiniteSet(Newlines(i)) /\ Cardinality(Newlines(i)) \in Nat
         /\ IsFiniteSet(PrintedTo(i)) /\ Cardinality(PrintedTo(i)) \in Nat
         /\ Place(i) = Cardinality(PrintedTo(i))
<1>1. IsFiniteSet(1 .. i - 1) /\ IsFiniteSet(1 .. i)
  BY FS_Interval
<1>2. Newlines(i) \subseteq 1 .. i - 1 /\ PrintedTo(i) \subseteq 1 .. i
  BY DEF Newlines, PrintedTo, Before
<1>3. IsFiniteSet(Newlines(i)) /\ IsFiniteSet(PrintedTo(i))
  BY <1>1, <1>2, FS_Subset
<1>. QED
  BY <1>3, FS_CardinalityType DEF Place, PrintedTo

LEMMA NewlinesNext ==
  ASSUME NEW i \in Nat \ {0}, Marker(i) \in 0 .. i - 1
  PROVE  Cardinality(Newlines(i + 1)) =
           CASE src[i].p = "marker" -> 0
             [] src[i].p = "newline" -> Cardinality(Newlines(i)) + 1
             [] OTHER -> Cardinality(Newlines(i))
<1>1. CASE src[i].p = "marker"
  <2>1. Marker(i + 1) = i
    BY <1>1, MarkerNext
  <2>2. Newlines(i + 1) = {}
    BY <1>1, <2>1 DEF Newlines, Before
  <2>. QED
    BY <1>1, <2>2, FS_EmptySet
<1>2. CASE src[i].p = "newline"
  <2>1. Marker(i + 1) = Marker(i)
    BY <1>2, MarkerNext
  <2>2. Newlines(i + 1) = Newlines(i) \cup {i} /\ i \notin Newlines(i)
    BY <1>2, <2>1 DEF Newlines, Before
  <2>. QED
    BY <1>2, <2>2, AreFinite, FS_AddElement
<1>3. CASE src[i].p \notin {"marker", "newline"}
  <2>1. Marker(i + 1) = Marker(i)
    BY <1>3, MarkerNext
  <2>2. Newlines(i + 1) = Newlines(i)
    BY <1>3, <2>1 DEF Newlines, Before
  <2>. QED
    BY <1>3, <2>2
<1>. QED
  BY <1>1, <1>2, <1>3

LEMMA PlaceNext ==
  ASSUME NEW i \in Nat \ {0}
  PROVE  Place(i) = Place(i - 1) + (IF Printed(i) THEN 1 ELSE 0)
<1>1. i - 1 \in Nat
  OBVIOUS
<1>2. CASE Printed(i)
  <2>1. PrintedTo(i) = PrintedTo(i - 1) \cup {i} /\ i \notin PrintedTo(i - 1)
    BY <1>2 DEF PrintedTo
  <2>2. Cardinality(PrintedTo(i)) = Cardinality(PrintedTo(i - 1)) + 1
    BY <1>1, <2>1, AreFinite, FS_AddElement
  <2>. QED
    BY <1>1, <1>2, <2>2, AreFinite
<1>3. CASE ~Printed(i)
  <2>1. PrintedTo(i) = PrintedTo(i - 1)
    BY <1>3 DEF PrintedTo
  <2>. QED
    BY <1>1, <1>3, <2>1, AreFinite
<1>. QED
  BY <1>2, <1>3

LEMMA PlaceBefore ==
  ASSUME NEW n \in Nat, NEW i \in 1 .. n, Printed(i)
  PROVE  Place(i) \in 1 .. Place(n)
<1>1. PrintedTo(i) \subseteq PrintedTo(n)
  BY DEF PrintedTo
<1>2. Place(i) <= Place(n)
  BY <1>1, AreFinite, FS_Subset
<1>3. Place(i) \in Nat /\ Place(i - 1) \in Nat /\ Place(n) \in Nat
  BY AreFinite
<1>. QED
  BY <1>2, <1>3, PlaceNext

-----------------------------------------------------------------------------
(* The account does not change while the file does not, and each step      *)
(* brings it to the next piece.                                            *)

LEMMA SameAccount ==
  ASSUME src' = src
  PROVE  /\ \A i : /\ Marker(i)' = Marker(i) /\ File(i)' = File(i) /\ Place(i)' = Place(i)
                  /\ PresumedLine(i)' = PresumedLine(i) /\ StartsLine(i)' = StartsLine(i)
                  /\ Printed(i)' = Printed(i) /\ Kind(i)' = Kind(i)
<1>1. \A i, p : Before(i, p)' = Before(i, p)
  BY Zenon DEF Before
<1>2. \A i : Marker(i)' = Marker(i)
  BY <1>1, Zenon DEF Marker
<1>3. \A i : PresumedLine(i)' = PresumedLine(i) /\ File(i)' = File(i)
  BY <1>1, <1>2, Zenon DEF PresumedLine, File
<1>4. \A i : Printed(i)' = Printed(i)
  BY Zenon DEF Printed
<1>5. \A i : Place(i)' = Place(i)
  BY <1>4, Zenon DEF Place
<1>6. \A i : StartsLine(i)' = StartsLine(i)
  BY DEF StartsLine
<1>7. \A i : Kind(i)' = Kind(i)
  BY DEF Kind
<1>. QED
  BY <1>2, <1>3, <1>4, <1>5, <1>6, <1>7, Zenon

LEMMA SamePlaces ==
  ASSUME src' = src, variant' = variant
  PROVE  \A i, o : AsClang(i, o)' <=> AsClang(i, o)
BY SameAccount, SMT DEF AsClang

\* The piece that is printed next, and its token.
LEMMA NextPiece ==
  ASSUME IInv, NEW type \in BOOLEAN, Next_(type)
  PROVE  /\ at \in DOMAIN src /\ at \in Nat \ {0} /\ at + 1 - 1 = at /\ at' = at + 1
         /\ src' = src /\ FileIsRead'
         /\ tokens[at].text = src[at]
         /\ src[at].p \in {"marker", "space", "newline", "lexeme", "eof"}
         /\ Type = TypeOf(src[at])
         /\ Type = Directive <=> src[at].p = "marker"
         /\ Type = Whitespace <=> src[at].p = "space"
         /\ Type = Newline <=> src[at].p = "newline"
         /\ src[at].p = "marker" => src[at].line \in Nat
         /\ src[at].p = "eof" => at' \notin DOMAIN src
         /\ AfterMarker => src[at].p = "newline"
<1>1. src \in Seq(Piece)
  BY FilesAreLexed DEF IInv, FileIsRead
<1>2. at \in 1 .. Len(tokens) /\ at' = at + 1 /\ UNCHANGED <<src, tokens, variant>>
  BY DEF Next_, IInv, FileIsRead
<1>3. tokens = [i \in 1 .. Len(src) |-> [type |-> TypeOf(src[i]), text |-> src[i]]] /\ Len(tokens) = Len(src)
  BY <1>1, <1>2 DEF IInv, FileIsRead
<1>4. at \in DOMAIN src /\ DOMAIN src = 1 .. Len(src) /\ Len(src) \in Nat
  BY <1>1, <1>2, <1>3
<1>5. tokens[at].text = src[at] /\ Type = TypeOf(src[at])
  BY <1>3, <1>4 DEF Type
<1>6. FileIsRead'
  BY <1>2, <1>3, <1>4 DEF IInv, FileIsRead
<1>7. src \in Files
  BY DEF IInv, FileIsRead
<1>8. src[at].p = "eof" => at = Len(src)
  BY <1>4, <1>7, FilesAreLexed
<1>10. TypeOf(src[at]) = Directive <=> src[at].p = "marker"
  BY <1>4, <1>7, TypeTells, Zenon
<1>11. TypeOf(src[at]) = Whitespace <=> src[at].p = "space"
  BY <1>4, <1>7, TypeTells, Zenon
<1>12. TypeOf(src[at]) = Newline <=> src[at].p = "newline"
  BY <1>4, <1>7, TypeTells, Zenon
<1>13. src[at].p = "marker" => src[at].line \in Nat
  BY <1>4, <1>7, PieceIs, Zenon
<1>14. src[at].p \in {"marker", "space", "newline", "lexeme", "eof"}
  BY <1>4, <1>7, PieceIs, Zenon
<1>9. AfterMarker => src[at].p = "newline"
  <2>1. SUFFICES ASSUME AfterMarker PROVE src[at].p = "newline"
    OBVIOUS
  <2>2. at - 1 \in DOMAIN src /\ src[at - 1].p = "marker" /\ (at - 1) + 1 = at
    BY <1>4, <2>1 DEF AfterMarker
  <2>. QED
    BY <1>7, <2>2, FilesAreLexed
<1>. QED
  BY <1>2, <1>4, <1>5, <1>6, <1>8, <1>9, <1>10, <1>11, <1>12, <1>13, <1>14

\* The name that is printed of a token.
LEMMA NextName ==
  ASSUME IInv, NEW type \in BOOLEAN, Next_(type), src[at].p \in {"lexeme", "eof"}
  PROVE  Kind(at) = IF Type = EOF THEN "eof" ELSE tokenType2ClangStr(Type)
<1>1. at \in DOMAIN src /\ src \in Files /\ Type = TypeOf(src[at])
  BY NextPiece DEF IInv, FileIsRead
<1>2. CASE src[at].p = "eof"
  <2>1. Type = EOF
    BY <1>1, <1>2, TypeTells, Zenon
  <2>. QED
    BY <1>2, <2>1, Zenon DEF Kind
<1>3. CASE src[at].p = "lexeme"
  <2>1. ~(src[at].p = "eof")
    BY <1>3
  <2>2. Type # EOF
    BY <1>1, <2>1, TypeTells, Zenon
  <2>3. tokenType2ClangStr(Type) = ClangKinds[CHOOSE k \in DOMAIN Lexemes : Lexemes[k] = src[at].s]
    BY <1>1, <1>3, TypeTells, Zenon
  <2>. QED
    BY <2>1, <2>2, <2>3, Zenon DEF Kind
<1>. QED
  BY <1>2, <1>3

LEMMA LineGoesOn ==
  ASSUME NEW i \in Nat \ {0}, Marker(i) \in 0 .. i - 1, src[i].p # "marker"
  PROVE  /\ Marker(i + 1) = Marker(i) /\ File(i + 1) = File(i)
         /\ src[i].p # "newline" => PresumedLine(i + 1) = PresumedLine(i)
         /\ (Marker(i) # 0 => src[Marker(i)].line \in Nat) =>
              /\ PresumedLine(i) \in Int
              /\ src[i].p = "newline" => PresumedLine(i + 1) = PresumedLine(i) + 1
<1>1. Marker(i + 1) = Marker(i)
  BY MarkerNext
<1>2. Cardinality(Newlines(i)) \in Nat
  BY AreFinite
<1>3. Cardinality(Newlines(i + 1)) = Cardinality(Newlines(i)) + (IF src[i].p = "newline" THEN 1 ELSE 0)
  BY <1>2, NewlinesNext
<1>4. PresumedLine(i) = IF Marker(i) = 0 THEN 1 + Cardinality(Newlines(i))
                        ELSE src[Marker(i)].line + Cardinality(Newlines(i)) - 1
  BY DEF PresumedLine, Newlines
<1>5. PresumedLine(i + 1) = IF Marker(i) = 0 THEN 1 + Cardinality(Newlines(i + 1))
                            ELSE src[Marker(i)].line + Cardinality(Newlines(i + 1)) - 1
  BY <1>1 DEF PresumedLine, Newlines
<1>6. File(i + 1) = File(i)
  BY <1>1 DEF File
<1>7. src[i].p # "newline" => PresumedLine(i + 1) = PresumedLine(i)
  BY <1>2, <1>3, <1>4, <1>5
<1>8. ASSUME Marker(i) # 0 => src[Marker(i)].line \in Nat
      PROVE  /\ PresumedLine(i) \in Int
             /\ src[i].p = "newline" => PresumedLine(i + 1) = PresumedLine(i) + 1
  BY <1>2, <1>3, <1>4, <1>5, <1>8
<1>. QED
  BY <1>1, <1>6, <1>7, <1>8

LEMMA LineStarts ==
  ASSUME NEW i \in Nat \ {0}
  PROVE  StartsLine(i + 1) <=>
           src[i].p # "lexeme" /\ (src[i].p = "newline" \/ StartsLine(i))
BY DEF StartsLine

-----------------------------------------------------------------------------
(* IInv holds in the beginning and every action keeps it.                   *)

LEMMA FlagsSet ==
  ASSUME at' > 1, startOfLine' \in BOOLEAN, lastIsWhitespace' \in BOOLEAN, lastIsDirective' \in BOOLEAN,
         lastIsWhitespace' <=> src'[at' - 1].p = "space",
         lastIsDirective' <=> src'[at' - 1].p = "marker",
         at' \in DOMAIN src' /\ ~AfterMarker' => (startOfLine' <=> StartsLine(at)')
  PROVE  FlagsAreTrue'
BY Zenon DEF FlagsAreTrue

LEMMA IInvInit == Init => IInv
<1>. SUFFICES ASSUME Init PROVE IInv
  OBVIOUS
<1>2. src \in Files /\ Len(src) \in Nat
  BY FilesAreLexed DEF Init
<1>3. FileIsRead
  BY <1>2 DEF Init, FileIsRead
<1>4. ~AfterMarker
  BY DEF Init, AfterMarker
<1>5. FlagsAreTrue
  BY NoneBeforeFirst DEF Init, FlagsAreTrue
<1>6. LineIsPresumed
  BY <1>4, NoneBeforeFirst DEF Init, LineIsPresumed
<1>7. PrintedAsClang
  BY NoneBeforeFirst DEF Init, PrintedAsClang
<1>8. outFile \in Seq(OutLine)
  BY DEF Init
<1>. QED
  BY <1>3, <1>5, <1>6, <1>7, <1>8 DEF IInv

\* A step that prints nothing leaves a piece that is not printed.
LEMMA NothingPrinted ==
  ASSUME IInv, NEW type \in BOOLEAN, Next_(type), outFile' = outFile, ~Printed(at)
  PROVE  PrintedAsClang'
<1>1. at \in Nat \ {0} /\ at + 1 - 1 = at /\ at' = at + 1 /\ src' = src /\ variant' = variant
  BY NextPiece DEF Next_
<1>2. Len(outFile) = Place(at - 1)
  BY DEF IInv, PrintedAsClang
<1>3. Place(at) = Place(at - 1)
  BY <1>1, PlaceNext, AreFinite
<1>4. Len(outFile') = Place(at - 1)'
  BY <1>1, <1>2, <1>3, SameAccount
<1>5. ASSUME NEW i \in 1 .. at, Printed(i) PROVE AsClang(i, outFile[Place(i)])
  <2>1. i \in 1 .. at - 1
    BY <1>1, <1>5
  <2>. QED
    BY <1>5, <2>1 DEF IInv, PrintedAsClang
<1>6. ASSUME NEW i \in 1 .. at' - 1, Printed(i)' PROVE AsClang(i, outFile[Place(i)])'
  <2>1. i \in 1 .. at /\ Printed(i) /\ Place(i)' = Place(i)
    BY <1>1, <1>6, SameAccount
  <2>2. AsClang(i, outFile[Place(i)])
    BY <2>1, <1>5
  <2>3. outFile'[Place(i)'] = outFile[Place(i)]
    BY <2>1
  <2>. QED
    BY <1>1, <2>2, <2>3, SamePlaces
<1>. QED
  BY <1>4, <1>6 DEF PrintedAsClang

LEMMA DirectiveKeeps == IInv /\ PrintDirective => IInv'
<1>. SUFFICES ASSUME IInv, PrintDirective PROVE IInv'
  OBVIOUS
<1>. DEFINE type == Type = Directive
<1>1. Next_(type) /\ type
  BY DEF PrintDirective, Next_
<1>2. /\ at \in DOMAIN src /\ at \in Nat \ {0} /\ at + 1 - 1 = at /\ at' = at + 1
      /\ src' = src /\ FileIsRead' /\ tokens[at].text = src[at]
  BY <1>1, NextPiece
<1>3. src[at].p = "marker" /\ src[at].line \in Nat
  BY <1>1, <1>2, NextPiece
<1>4. AfterMarker'
  BY <1>2, <1>3 DEF AfterMarker
<1>5. FlagsAreTrue'
  <2>1. startOfLine' = FALSE /\ lastIsWhitespace' = FALSE /\ lastIsDirective' = TRUE
    BY Zenon DEF PrintDirective
  <2>2. at' > 1 /\ src'[at' - 1].p = "marker"
    BY <1>2, <1>3
  <2>. QED
    BY <1>4, <2>1, <2>2, FlagsSet
<1>6. LineIsPresumed'
  <2>1. Marker(at + 1) = at
    BY <1>2, <1>3, MarkerNext
  <2>2. line' = src[at].line /\ curFileName' = src[at].file
    BY <1>2 DEF PrintDirective, parse_linemarker
  <2>3. Marker(at)' = at /\ File(at)' = src[at].file
    BY <1>2, <2>1, SameAccount DEF File
  <2>. QED
    BY <1>2, <1>3, <1>4, <2>2, <2>3 DEF LineIsPresumed
<1>7. PrintedAsClang'
  BY <1>1, <1>3, NothingPrinted DEF PrintDirective, Printed
<1>. QED
  BY <1>2, <1>5, <1>6, <1>7 DEF IInv, PrintDirective

LEMMA WhitespaceKeeps == IInv /\ PrintWhitespace => IInv'
<1>. SUFFICES ASSUME IInv, PrintWhitespace PROVE IInv'
  OBVIOUS
<1>. DEFINE type == Type = Whitespace
<1>1. Next_(type) /\ type
  BY DEF PrintWhitespace, Next_
<1>2. /\ at \in DOMAIN src /\ at \in Nat \ {0} /\ at + 1 - 1 = at /\ at' = at + 1
      /\ src' = src /\ FileIsRead'
      /\ (AfterMarker => src[at].p = "newline")
  BY <1>1, NextPiece
<1>3. src[at].p = "space" /\ ~AfterMarker
  BY <1>1, <1>2, NextPiece
<1>4. ~AfterMarker'
  BY <1>2, <1>3 DEF AfterMarker
<1>5. FlagsAreTrue'
  <2>1. StartsLine(at)' <=> StartsLine(at)
    BY <1>2, <1>3, LineStarts, SameAccount
  <2>2. startOfLine' = startOfLine /\ lastIsWhitespace' = TRUE /\ lastIsDirective' = FALSE
    BY Zenon DEF PrintWhitespace
  <2>3. at' > 1 /\ src'[at' - 1].p = "space"
    BY <1>2, <1>3
  <2>4. startOfLine \in BOOLEAN /\ (startOfLine <=> StartsLine(at))
    BY <1>2, <1>3, Zenon DEF IInv, FlagsAreTrue
  <2>. QED
    BY <2>1, <2>2, <2>3, <2>4, FlagsSet
<1>6. LineIsPresumed'
  <2>1. /\ Marker(at) \in 0 .. at - 1 /\ Marker(at)' = Marker(at) /\ File(at)' = File(at)
        /\ PresumedLine(at)' = PresumedLine(at)
    BY <1>2, <1>3, LineGoesOn, SameAccount DEF IInv, LineIsPresumed
  <2>. QED
    BY <1>2, <1>3, <1>4, <2>1 DEF IInv, LineIsPresumed, PrintWhitespace
<1>7. PrintedAsClang'
  BY <1>1, <1>3, NothingPrinted DEF PrintWhitespace, Printed
<1>. QED
  BY <1>2, <1>5, <1>6, <1>7 DEF IInv, PrintWhitespace

LEMMA NewlineKeeps == IInv /\ PrintNewline => IInv'
<1>. SUFFICES ASSUME IInv, PrintNewline PROVE IInv'
  OBVIOUS
<1>. DEFINE type == Type = Newline
<1>1. Next_(type) /\ type
  BY DEF PrintNewline, Next_
<1>2. /\ at \in DOMAIN src /\ at \in Nat \ {0} /\ at + 1 - 1 = at /\ at' = at + 1
      /\ src' = src /\ FileIsRead'
  BY <1>1, NextPiece
<1>3. src[at].p = "newline"
  BY <1>1, <1>2, NextPiece
<1>4. ~AfterMarker'
  BY <1>2, <1>3 DEF AfterMarker
<1>5. FlagsAreTrue'
  <2>1. StartsLine(at)'
    BY <1>2, <1>3, LineStarts, SameAccount
  <2>2. startOfLine' = TRUE /\ lastIsWhitespace' = FALSE /\ lastIsDirective' = FALSE
    BY Zenon DEF PrintNewline
  <2>3. at' > 1 /\ src'[at' - 1].p = "newline"
    BY <1>2, <1>3
  <2>. QED
    BY <2>1, <2>2, <2>3, FlagsSet
<1>6. LineIsPresumed'
  <2>1. Marker(at) \in 0 .. at - 1 /\ (Marker(at) # 0 => src[Marker(at)].p = "marker")
    BY DEF IInv, LineIsPresumed
  <2>2. Marker(at) # 0 => src[Marker(at)].line \in Nat
    <3>1. Marker(at) # 0 => Marker(at) \in DOMAIN src
      BY <1>2, <2>1, FilesAreLexed DEF IInv, FileIsRead
    <3>. QED
      BY <2>1, <3>1, PieceIs DEF IInv, FileIsRead
  <2>3. /\ Marker(at)' = Marker(at) /\ File(at)' = File(at)
        /\ PresumedLine(at) \in Int /\ PresumedLine(at)' = PresumedLine(at) + 1
    BY <1>2, <1>3, <2>1, <2>2, LineGoesOn, SameAccount
  <2>4. PresumedLine(1) = 1 /\ Marker(1) = 0
    BY NoneBeforeFirst
  <2>5. line' = PresumedLine(at) + 1 \/ (Marker(at) = 0 /\ src[1].p = "newline" /\ line' = PresumedLine(at))
    <3>1. CASE AfterMarker
      <4>1. Marker(at) = at - 1 /\ line = src[at - 1].line /\ at > 1 /\ lastIsDirective
        BY <3>1 DEF AfterMarker, IInv, LineIsPresumed, FlagsAreTrue
      <4>2. Newlines(at) = {}
        BY <1>2, <4>1 DEF Newlines, Before
      <4>3. PresumedLine(at) = line - 1 /\ line \in Nat
        BY <1>2, <2>2, <4>1, <4>2, FS_EmptySet DEF PresumedLine, Newlines
      <4>. QED
        BY <4>1, <4>3 DEF PrintNewline
    <3>2. CASE ~AfterMarker /\ at > 1
      <4>1. ~lastIsDirective
        BY <3>2 DEF IInv, FlagsAreTrue, AfterMarker
      <4>2. line = PresumedLine(at) \/ (Marker(at) = 0 /\ src[1].p = "newline" /\ line = PresumedLine(at) - 1)
        BY <3>2 DEF IInv, LineIsPresumed
      <4>. QED
        BY <2>3, <4>1, <4>2 DEF PrintNewline
    <3>3. CASE at = 1
      <4>1. line = 1
        BY <3>3, <2>4 DEF IInv, LineIsPresumed, AfterMarker
      <4>. QED
        BY <1>3, <3>3, <2>4, <4>1 DEF PrintNewline
    <3>. QED
      BY <1>2, <3>1, <3>2, <3>3
  <2>6. curFileName' = File(at)' /\ at' > 1
    BY <1>2, <2>3 DEF IInv, LineIsPresumed, PrintNewline
  <2>. QED
    BY <1>2, <1>4, <2>1, <2>3, <2>5, <2>6 DEF LineIsPresumed
<1>7. PrintedAsClang'
  BY <1>1, <1>3, NothingPrinted DEF PrintNewline, Printed
<1>. QED
  BY <1>2, <1>5, <1>6, <1>7 DEF IInv, PrintNewline

LEMMA MarkerIs ==
  ASSUME IInv, at \in DOMAIN src, Marker(at) # 0
  PROVE  src[Marker(at)].line \in Nat /\ src[Marker(at)].file \in STRING
<1>1. src \in Files /\ Marker(at) \in DOMAIN src /\ src[Marker(at)].p = "marker"
  BY FilesAreLexed DEF IInv, FileIsRead, LineIsPresumed
<1>. QED
  BY <1>1, PieceIs

LEMMA TokenKeeps == IInv /\ PrintToken => IInv'
<1>. SUFFICES ASSUME IInv, PrintToken PROVE IInv'
  OBVIOUS
<1>. DEFINE type == Type \notin {Directive, Whitespace, Newline}
<1>1. Next_(type) /\ type
  BY DEF PrintToken, Next_
<1>2. /\ at \in DOMAIN src /\ at \in Nat \ {0} /\ at + 1 - 1 = at /\ at' = at + 1
      /\ src' = src /\ FileIsRead' /\ variant' = variant
      /\ (src[at].p = "eof" => at' \notin DOMAIN src)
  BY <1>1, NextPiece DEF Next_
<1>3. src[at].p \in {"lexeme", "eof"} /\ ~AfterMarker
  BY <1>1, <1>2, NextPiece
<1>4. ~AfterMarker'
  BY <1>2, <1>3 DEF AfterMarker
<1>5. FlagsAreTrue'
  <2>1. at' \in DOMAIN src' => ~StartsLine(at)'
    BY <1>2, <1>3, LineStarts, SameAccount
  <2>2. startOfLine' = FALSE /\ lastIsWhitespace' = FALSE /\ lastIsDirective' = FALSE
    BY Zenon DEF PrintToken
  <2>3. at' > 1 /\ src'[at' - 1].p \in {"lexeme", "eof"}
    BY <1>2, <1>3
  <2>. QED
    BY <2>1, <2>2, <2>3, FlagsSet
<1>6. LineIsPresumed'
  <2>1. /\ Marker(at) \in 0 .. at - 1 /\ Marker(at)' = Marker(at) /\ File(at)' = File(at)
        /\ PresumedLine(at)' = PresumedLine(at)
    BY <1>2, <1>3, LineGoesOn, SameAccount DEF IInv, LineIsPresumed
  <2>2. line' = line /\ curFileName' = curFileName
    BY Zenon DEF PrintToken
  <2>. QED
    BY <1>2, <1>3, <1>4, <2>1, <2>2 DEF IInv, LineIsPresumed
<1>. DEFINE o == [name  |-> IF variant = "antlr" THEN "symbolic" ELSE IF Type = EOF THEN "eof" ELSE tokenType2ClangStr(Type),
                  file  |-> curFileName, line |-> line,
                  start |-> startOfLine, space |-> lastIsWhitespace]
<1>8. o \in OutLine
  <2>1. curFileName \in STRING \cup {NoFile}
    BY <1>2, MarkerIs, Zenon DEF IInv, LineIsPresumed, File
  <2>2. line \in Int
    BY <1>2, <1>3, MarkerIs, LineGoesOn DEF IInv, LineIsPresumed
  <2>3. o.name \in Names
    <3>1. Kind(at) \in Names
      <4>1. src[at].p = "lexeme" => src[at].s \in ToSet(Lexemes)
        BY <1>2, PieceIs, Zenon DEF IInv, FileIsRead
      <4>2. src[at].p = "lexeme" => (CHOOSE k \in DOMAIN Lexemes : Lexemes[k] = src[at].s) \in 1 .. 34
        BY <4>1, LexemeIs, Zenon
      <4>. QED
        BY <1>3, <4>2, Zenon DEF Kind, Names
    <3>2. Kind(at) = IF Type = EOF THEN "eof" ELSE tokenType2ClangStr(Type)
      BY <1>1, <1>3, NextName
    <3>. QED
      BY <3>1, <3>2, Zenon DEF Names
  <2>4. startOfLine \in BOOLEAN /\ lastIsWhitespace \in BOOLEAN
    BY DEF IInv, FlagsAreTrue
  <2>. QED
    BY <2>1, <2>2, <2>3, <2>4 DEF OutLine
<1>7. PrintedAsClang'
  <2>1. outFile' = Append(outFile, o)
    BY Zenon DEF PrintToken
  <2>2. Printed(at)
    BY <1>3 DEF Printed
  <2>3. AsClang(at, o)
    <3>1. variant = "clang" => o.name = Kind(at)
      BY <1>1, <1>2, <1>3, NextName
    <3>2. o.file = File(at)
      BY DEF IInv, LineIsPresumed
    <3>3. o.line = PresumedLine(at) \/ (Marker(at) = 0 /\ src[1].p = "newline" /\ o.line = PresumedLine(at) - 1)
      BY <1>3 DEF IInv, LineIsPresumed
    <3>4. o.start = StartsLine(at)
      <4>1. startOfLine \in BOOLEAN /\ (startOfLine <=> StartsLine(at))
        BY <1>2, <1>3, Zenon DEF IInv, FlagsAreTrue
      <4>2. StartsLine(at) \in BOOLEAN
        BY Zenon DEF StartsLine
      <4>. QED
        BY <4>1, <4>2
    <3>5. o.space = (at > 1 /\ src[at - 1].p = "space") \/ at = 1
      <4>1. lastIsWhitespace \in BOOLEAN /\ (at > 1 => (lastIsWhitespace <=> src[at - 1].p = "space"))
        BY Zenon DEF IInv, FlagsAreTrue
      <4>. QED
        BY <1>2, <4>1
    <3>. HIDE DEF o
    <3>. QED
      BY <3>1, <3>2, <3>3, <3>4, <3>5 DEF AsClang
  <2>. HIDE DEF o
  <2>4. Len(outFile) = Place(at - 1) /\ Place(at - 1) \in Nat
    <3>1. at - 1 \in Nat
      BY <1>2
    <3>. QED
      BY <3>1, AreFinite DEF IInv, PrintedAsClang
  <2>5. Place(at) = Place(at - 1) + 1
    BY <1>2, <2>2, PlaceNext
  <2>6. outFile \in Seq(OutLine) /\ o \in OutLine
    BY <1>8 DEF IInv, o
  <2>7. Len(outFile') = Place(at) /\ outFile'[Place(at)] = o
    BY <2>1, <2>4, <2>5, <2>6
  <2>8. Len(outFile') = Place(at - 1)'
    BY <1>2, <2>7, SameAccount
  <2>9. ASSUME NEW i \in 1 .. at, Printed(i) PROVE AsClang(i, outFile'[Place(i)])
    <3>1. CASE i = at
      BY <2>3, <2>7, <3>1
    <3>2. CASE i \in 1 .. at - 1
      <4>1. Place(i) \in 1 .. Place(at - 1)
        BY <1>2, <2>9, <3>2, PlaceBefore
      <4>2. outFile'[Place(i)] = outFile[Place(i)]
        BY <2>1, <2>4, <2>6, <4>1
      <4>3. AsClang(i, outFile[Place(i)])
        BY <2>9, <3>2 DEF IInv, PrintedAsClang
      <4>. QED
        BY <4>2, <4>3
    <3>. QED
      BY <1>2, <3>1, <3>2
  <2>10. ASSUME NEW i \in 1 .. at' - 1, Printed(i)' PROVE AsClang(i, outFile[Place(i)])'
    <3>1. i \in 1 .. at /\ Printed(i) /\ Place(i)' = Place(i)
      BY <1>2, <2>10, SameAccount
    <3>2. AsClang(i, outFile'[Place(i)])
      BY <2>9, <3>1
    <3>. QED
      BY <1>2, <3>1, <3>2, SamePlaces
  <2>. QED
    BY <2>8, <2>10 DEF PrintedAsClang
<1>. QED
  <2>1. outFile' \in Seq(OutLine)
    BY <1>8 DEF IInv, PrintToken
  <2>. QED
    BY <1>2, <1>5, <1>6, <1>7, <2>1 DEF IInv

-----------------------------------------------------------------------------
LEMMA AccountStays ==
  ASSUME IInv, FileIsRead',
         UNCHANGED <<src, line, curFileName, startOfLine, lastIsWhitespace, lastIsDirective, at, variant, outFile>>
  PROVE  IInv'
<1>1. AfterMarker' <=> AfterMarker
  BY DEF AfterMarker
<1>2. FlagsAreTrue'
  BY <1>1, SameAccount DEF IInv, FlagsAreTrue
<1>3. LineIsPresumed'
  BY <1>1, SameAccount DEF IInv, LineIsPresumed
<1>4. PrintedAsClang'
  <2>1. Len(outFile') = Place(at - 1)'
    BY SameAccount DEF IInv, PrintedAsClang
  <2>2. ASSUME NEW i \in 1 .. at - 1, Printed(i)' PROVE AsClang(i, outFile[Place(i)])'
    <3>1. AsClang(i, outFile[Place(i)]) /\ outFile'[Place(i)'] = outFile[Place(i)]
      BY <2>2, SameAccount DEF IInv, PrintedAsClang
    <3>. QED
      BY <3>1, SamePlaces
  <2>. QED
    BY <2>1, <2>2 DEF PrintedAsClang
<1>. QED
  BY <1>2, <1>3, <1>4 DEF IInv

THEOREM AlwaysIInv == Spec => []IInv
<1>1. Init => IInv
  BY IInvInit
<1>2. IInv /\ Lex => IInv'
  BY AccountStays DEF IInv, FileIsRead, Lex
<1>3. IInv /\ UNCHANGED vars => IInv'
  BY AccountStays DEF IInv, FileIsRead, vars
<1>4. IInv /\ [Next]_vars => IInv'
  BY <1>2, <1>3, DirectiveKeeps, WhitespaceKeeps, NewlineKeeps, TokenKeeps DEF Next
<1>. QED
  BY <1>1, <1>4, PTL DEF Spec

(***************************************************************************)
(* PrintedAsClang holds of every file: each token is printed once, in its  *)
(* place, with clang's kind, presumed line and file and the flags of the   *)
(* white space in front of it, by print_tokens.cpp's one pass over the     *)
(* tokens.                                                                 *)
(***************************************************************************)
THEOREM AlwaysPrintedAsClang == Spec => []PrintedAsClang
<1>1. IInv => PrintedAsClang
  BY DEF IInv
<1>. QED
  BY <1>1, AlwaysIInv, PTL
=============================================================================

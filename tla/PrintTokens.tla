---------------------------- MODULE PrintTokens ----------------------------
(***************************************************************************)
(* main_task1: the lexer reads a file and print_tokens.cpp prints its      *)
(* tokens as clang -dump-tokens does.  A file is a sequence of pieces,     *)
(*   [p |-> "marker", line, file]  # line "file" ..., to the end of line   *)
(*   [p |-> "space"], [p |-> "newline"], [p |-> "lexeme", s]               *)
(* and ends with [p |-> "eof"].  Columns, which the lexer keeps, are left  *)
(* out.  A definition X_Y is X with the slip Y; no action uses it.         *)
(***************************************************************************)
EXTENDS Integers, Sequences, FiniteSets, SequencesExt

CONSTANT Files

\* The lexemes of C.g4.
Lexemes ==
  <<"break", "const", "continue", "else", "if", "int", "return", "void", "while",
    "(", ")", "[", "]", "{", "}", "<", "<=", ">", ">=", "+", "-", "*", "/", "%",
    "&&", "||", "!", ";", ",", "=", "==", "!=", "x", "1">>

Piece == [p : {"space", "newline", "eof"}]
         \cup [p : {"marker"}, line : Nat, file : STRING]
         \cup [p : {"lexeme"}, s : ToSet(Lexemes)]

\* A marker takes its whole line, and the end comes last.
ASSUME FilesAreLexed ==
  \A f \in Files :
    /\ f \in Seq(Piece)
    /\ \A i \in DOMAIN f :
         /\ f[i].p = "marker" => i < Len(f) /\ f[i + 1].p = "newline"
         /\ f[i].p = "eof" => i = Len(f)

VARIABLES
  src,                                         \* the file
  tokens,                                      \* what the lexer made of it
  line, curFileName,                           \* where the printer is
  startOfLine, lastIsWhitespace, lastIsDirective,
  at,                                          \* the next token to print
  variant,                                     \* "clang" | "antlr"
  outFile                                      \* the lines that were printed

vars == <<src, tokens, line, curFileName, startOfLine, lastIsWhitespace, lastIsDirective,
          at, variant, outFile>>

\* Their token types.
TypesOf ==
  <<21, 24, 25, 29, 35, 37, 41, 51, 53,
    64, 65, 66, 67, 68, 69, 70, 71, 72, 73, 76, 78, 80, 81, 82,
    85, 86, 88, 92, 93, 94, 105, 106, 110, 111>>
EOF == -1   Directive == 115   Whitespace == 117   Newline == 118

TypeOf(piece) ==
  CASE piece.p = "marker" -> Directive
    [] piece.p = "space" -> Whitespace
    [] piece.p = "newline" -> Newline
    [] piece.p = "eof" -> EOF
    [] piece.p = "lexeme" -> TypesOf[CHOOSE i \in DOMAIN Lexemes : Lexemes[i] = piece.s]

\* "unknown" is what is printed when the map has no entry.
tokenType2ClangStr(type) ==
  CASE type = 21 -> "break" [] type = 24 -> "const" [] type = 25 -> "continue"
    [] type = 29 -> "else" [] type = 35 -> "if" [] type = 37 -> "int"
    [] type = 41 -> "return" [] type = 51 -> "void" [] type = 53 -> "while"
    [] type = 64 -> "l_paren" [] type = 65 -> "r_paren" [] type = 66 -> "l_square"
    [] type = 67 -> "r_square" [] type = 68 -> "l_brace" [] type = 69 -> "r_brace"
    [] type = 70 -> "less" [] type = 71 -> "lessequal" [] type = 72 -> "greater"
    [] type = 73 -> "greaterequal" [] type = 76 -> "plus" [] type = 78 -> "minus"
    [] type = 80 -> "star" [] type = 81 -> "slash" [] type = 82 -> "percent"
    [] type = 85 -> "ampamp" [] type = 86 -> "pipepipe" [] type = 88 -> "exclaim"
    [] type = 92 -> "semi" [] type = 93 -> "comma" [] type = 94 -> "equal"
    [] type = 105 -> "equalequal" [] type = 106 -> "exclaimequal"
    [] type = 110 -> "identifier" [] type = 111 -> "numeric_constant"
    [] OTHER -> "unknown"

\* The name before the first marker.
NoFile == ""

\* lastIsWhitespace and lastIsDirective have no initial value.
Init ==
  /\ src \in Files
  /\ tokens = <<>>
  /\ line = 1
  /\ curFileName = NoFile
  /\ startOfLine = TRUE
  /\ lastIsWhitespace \in BOOLEAN
  /\ lastIsDirective \in BOOLEAN
  /\ at = 1
  /\ variant \in {"clang", "antlr"}
  /\ outFile = <<>>

\* tokens.fill(): all tokens, those of hidden channels too.
Lex ==
  /\ tokens = <<>>
  /\ tokens' = [i \in DOMAIN src |-> [type |-> TypeOf(src[i]), text |-> src[i]]]
  /\ UNCHANGED <<src, line, curFileName, startOfLine, lastIsWhitespace, lastIsDirective, at, variant, outFile>>

Next_(type) ==
  /\ at <= Len(tokens)
  /\ type
  /\ at' = at + 1
  /\ UNCHANGED <<src, tokens, variant>>

Type == tokens[at].type

\* The file loses its quotes; it has no spaces.
parse_linemarker(text) == [linenum |-> text.line, filename |-> text.file]

PrintDirective ==
  /\ Next_(Type = Directive)
  /\ LET lm == parse_linemarker(tokens[at].text) IN line' = lm.linenum /\ curFileName' = lm.filename
  /\ startOfLine' = FALSE /\ lastIsWhitespace' = FALSE /\ lastIsDirective' = TRUE
  /\ UNCHANGED outFile

PrintWhitespace ==
  /\ Next_(Type = Whitespace)
  /\ lastIsWhitespace' = TRUE /\ lastIsDirective' = FALSE
  /\ UNCHANGED <<line, curFileName, startOfLine, outFile>>

\* The line of the marker itself is counted.
PrintNewline_Always ==
  /\ Next_(Type = Newline)
  /\ line' = line + 1
  /\ startOfLine' = TRUE /\ lastIsWhitespace' = FALSE /\ lastIsDirective' = FALSE
  /\ UNCHANGED <<curFileName, outFile>>

PrintNewline ==
  /\ Next_(Type = Newline)
  /\ line' = IF lastIsDirective THEN line ELSE line + 1
  /\ startOfLine' = TRUE /\ lastIsWhitespace' = FALSE /\ lastIsDirective' = FALSE
  /\ UNCHANGED <<curFileName, outFile>>

\* print_token_clang or print_token_antlr, which differ in the name.
PrintToken ==
  /\ Next_(Type \notin {Directive, Whitespace, Newline})
  /\ outFile' = Append(outFile,
       [name  |-> IF variant = "antlr" THEN "symbolic" ELSE IF Type = EOF THEN "eof" ELSE tokenType2ClangStr(Type),
        file  |-> curFileName, line |-> line,
        start |-> startOfLine, space |-> lastIsWhitespace])
  /\ startOfLine' = FALSE /\ lastIsWhitespace' = FALSE /\ lastIsDirective' = FALSE
  /\ UNCHANGED <<line, curFileName>>

Next == Lex \/ PrintDirective \/ PrintWhitespace \/ PrintNewline \/ PrintToken

Spec == Init /\ [][Next]_vars

-----------------------------------------------------------------------------
\* What clang says of the piece at i, from the file alone.

ClangKinds ==
  <<"break", "const", "continue", "else", "if", "int", "return", "void", "while",
    "l_paren", "r_paren", "l_square", "r_square", "l_brace", "r_brace", "less", "lessequal",
    "greater", "greaterequal", "plus", "minus", "star", "slash", "percent",
    "ampamp", "pipepipe", "exclaim", "semi", "comma", "equal", "equalequal", "exclaimequal",
    "identifier", "numeric_constant">>
Kind(i) ==
  IF src[i].p = "eof" THEN "eof" ELSE ClangKinds[CHOOSE k \in DOMAIN Lexemes : Lexemes[k] = src[i].s]

Before(i, p) == {j \in 1 .. i - 1 : src[j].p = p}
Marker(i) == IF Before(i, "marker") = {} THEN 0 ELSE Max(Before(i, "marker"))

\* The newline after a marker ends the marker's own line.
PresumedLine(i) ==
  LET newlines == Cardinality({j \in Before(i, "newline") : j > Marker(i)})
  IN IF Marker(i) = 0 THEN 1 + newlines ELSE src[Marker(i)].line + newlines - 1

File(i) == IF Marker(i) = 0 THEN NoFile ELSE src[Marker(i)].file
StartsLine(i) ==
  \A j \in 1 .. i - 1 : src[j].p = "lexeme" => \E k \in j + 1 .. i - 1 : src[k].p = "newline"

\* The tokens that are printed, and the place in the output of the one at i.
Printed(i) == src[i].p \in {"lexeme", "eof"}
Place(i) == Cardinality({j \in 1 .. i : Printed(j)})

AsClang(i, o) ==
  /\ variant = "clang" => o.name = Kind(i)
  /\ o.file = File(i)
  /\ o.line = PresumedLine(i) \/ (Marker(i) = 0 /\ src[1].p = "newline" /\ o.line = PresumedLine(i) - 1)
  /\ o.start = StartsLine(i)
  /\ o.space = (i > 1 /\ src[i - 1].p = "space") \/ i = 1

(***************************************************************************)
(* Every token is printed once, with clang's kind, presumed line and file, *)
(* and with the flags of the white space in front of it.  A file that does *)
(* not begin with a line marker meets variables without a value: a first   *)
(* token may then have any [LeadingSpace], and a first newline may not     *)
(* count.                                                                  *)
(***************************************************************************)
PrintedAsClang ==
  /\ Len(outFile) = Place(at - 1)
  /\ \A i \in 1 .. at - 1 : Printed(i) => AsClang(i, outFile[Place(i)])
=============================================================================

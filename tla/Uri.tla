-------------------------------- MODULE Uri --------------------------------
(***************************************************************************)
(* URI: how a document's address travels. The editor percent-encodes the    *)
(* path of a file as it likes, the server parses and decodes, uses the      *)
(* result as the key of its documents and as a path, and writes it out      *)
(* again decoded. A string is a sequence of one-character strings, except   *)
(* for the scheme, which is one element.                                    *)
(***************************************************************************)
EXTENDS Integers, Sequences, SequencesExt, FiniteSetsExt

CONSTANTS PathChars,  \* characters of file names
          Code,       \* the byte of each of them, and of "/"
          MaxPath     \* bound on the characters after the leading "/"

ASSUME UriAssumption ==
  /\ Code \in [PathChars \cup {"/"} -> 0 .. 255]
  /\ \A c, d \in DOMAIN Code : Code[c] = Code[d] => c = d
  /\ MaxPath \in Nat

VARIABLES path,       \* the file, as both sides' file systems name it
          wire,       \* what the editor sent
          uri,        \* the URI the server made of it
          stored      \* the string a completion item or a rename carries

uriVars == <<path, wire, uri, stored>>

Nothing == <<>>

\* hex_chars, the two digits of a byte, and what stoi(.., 16) makes of two digits.
hex_chars == <<"0", "1", "2", "3", "4", "5", "6", "7", "8", "9", "A", "B", "C", "D", "E", "F">>

to_hex(c) == <<hex_chars[(Code[c] \div 16) + 1], hex_chars[(Code[c] % 16) + 1]>>

Value(digit) == CHOOSE k \in 0 .. 15 : hex_chars[k + 1] = digit
stoi(high, low) == 16 * Value(high) + Value(low)

\* The character of a byte.
Character(byte) == CHOOSE c \in DOMAIN Code : Code[c] = byte

(* ------------------------------- parsing -------------------------------- *)

\* The first index from i on whose character is in D, or the end.
Until(s, i, D) == Min({Len(s) + 1} \cup {k \in i .. Len(s) : s[k] \in D})

\* Mutant: an escape at the very end is not recognised.
decodeShort(s) ==
  LET dec[i \in 1 .. Len(s) + 1] ==
        IF i > Len(s) THEN <<>>
        ELSE IF s[i] = "%" /\ i + 2 < Len(s)
        THEN <<Character(stoi(s[i + 1], s[i + 2]))>> \o dec[i + 3]
        ELSE <<s[i]>> \o dec[i + 1]
  IN dec[1]

\* decode: a "%" followed by two more characters is an escape.
decode(s) ==
  LET dec[i \in 1 .. Len(s) + 1] ==
        IF i > Len(s) THEN <<>>
        ELSE IF s[i] = "%" /\ i + 2 <= Len(s)
        THEN <<Character(stoi(s[i + 1], s[i + 2]))>> \o dec[i + 3]
        ELSE <<s[i]>> \o dec[i + 1]
  IN dec[1]

\* URI::init: the string is assembled anew, the path gets its leading slash.
init(scheme, authority, p, query, fragment) ==
  LET absolute == IF p = <<>> \/ Head(p) # "/" THEN <<"/">> \o p ELSE p
  IN [path |-> absolute,
      underlying |->
        (IF scheme = <<>> THEN <<>> ELSE scheme \o <<":">>)
        \o (IF authority # <<>> \/ scheme = <<"file">> THEN <<"/", "/">> \o authority ELSE <<>>)
        \o absolute
        \o (IF query = <<>> THEN <<>> ELSE <<"?">> \o query)
        \o (IF fragment = <<>> THEN <<>> ELSE <<"#">> \o fragment)]

\* URI(string): the five parts of RFC 3986's pattern, all but the scheme decoded.
parse(s) ==
  LET colon     == Until(s, 1, {":", "/", "?", "#"})
      hasScheme == colon > 1 /\ colon <= Len(s) /\ s[colon] = ":"
      a         == IF hasScheme THEN colon + 1 ELSE 1
      hasAuth   == a + 1 <= Len(s) /\ s[a] = "/" /\ s[a + 1] = "/"
      p         == IF hasAuth THEN Until(s, a + 2, {"/", "?", "#"}) ELSE a
      q         == Until(s, p, {"?", "#"})
      f         == Until(s, q, {"#"})
  IN init(IF hasScheme THEN SubSeq(s, 1, colon - 1) ELSE <<>>,
          IF hasAuth THEN decode(SubSeq(s, a + 2, p - 1)) ELSE <<>>,
          decode(SubSeq(s, p, q - 1)),
          decode(SubSeq(s, q + 1, f - 1)),
          decode(SubSeq(s, f + 1, Len(s))))

fromFile(p) == init(<<"file">>, <<>>, p, <<>>, <<>>)
getPath(u) == u.path

str(u) == u.underlying

\* URI::encode, which nothing calls.
encode(s) ==
  FlattenSeq([i \in DOMAIN s |->
    IF s[i] \in {" ", "%", "#", "?", ":"} THEN <<"%">> \o to_hex(s[i]) ELSE <<s[i]>>])

(* ------------------------------- actions -------------------------------- *)

UriInit == /\ path \in {<<"/">> \o p : p \in UNION {[1 .. n -> PathChars] : n \in 0 .. MaxPath}}
           /\ wire = Nothing /\ uri = Nothing /\ stored = Nothing

\* An editor encodes what it must (%, ?, #) and whatever else it likes to.
EditorSends == \E also \in SUBSET (PathChars \ {"/"}) :
  /\ wire = Nothing
  /\ wire' = <<"file", ":", "/", "/">>
             \o FlattenSeq([i \in DOMAIN path |->
                  IF path[i] \in {"%", "?", "#"} \cup also THEN <<"%">> \o to_hex(path[i])
                  ELSE <<path[i]>>])
  /\ UNCHANGED <<path, uri, stored>>

Receives == /\ wire # Nothing /\ uri = Nothing
            /\ uri' = parse(wire)
            /\ UNCHANGED <<path, wire, stored>>

\* The address is kept as a string: CompletionData::documentUri, the keys of a
\* rename's changes.
Keeps == /\ uri # Nothing /\ stored = Nothing
         /\ stored' = str(uri)
         /\ UNCHANGED <<path, wire, uri>>

\* Every spelling of a file's address is one key, the key of the documents the
\* index or a syntax tree opens by path, and leads to that file. A stored address is
\* read back as the same document, unless the file's name holds a character that means
\* something in an address: the string is not encoded.
SameDocument ==
  /\ uri # Nothing => uri = fromFile(path) /\ getPath(uri) = path
  /\ stored # Nothing /\ (\A i \in DOMAIN path : path[i] \notin {"%", "?", "#"}) => parse(stored) = uri

UriNext == EditorSends \/ Receives \/ Keeps

UriSpec == UriInit /\ [][UriNext]_uriVars
=============================================================================

---------------------------- MODULE SessionProofs ----------------------------
(***************************************************************************)
(* Theorems about a session for every workspace, every content of the      *)
(* configuration files and every order of edits, events and commands.      *)
(***************************************************************************)
EXTENDS Session, SequenceTheorems, TLAPS

-----------------------------------------------------------------------------
(* Config::fromFiles merges the files as Config.h documents.                *)

\* What one layer does to a list field: it appends what the file contributes.
LEMMA LayerAppends ==
  ASSUME NEW c, NEW f, NEW k \in ArrayFields, IsText(f),
         k \in DOMAIN c, IsArray(c[k]), c[k].array \in Seq(Word)
  PROVE  /\ k \in DOMAIN layerFile(c, f) /\ IsArray(layerFile(c, f)[k])
         /\ Contribution(f, k) \in Seq(Word)
         /\ layerFile(c, f)[k].array \in Seq(Word)
         /\ layerFile(c, f)[k].array = c[k].array \o Contribution(f, k)
<1>1. CASE HasField(f, k)
  <2>1. Readable(f) /\ k \in DOMAIN f /\ IsArray(f[k]) /\ f[k].array \in Seq(Word)
    BY <1>1 DEF HasField, Readable, IsText
  <2>2. Contribution(f, k) = f[k].array
    BY <1>1, <2>1 DEF Contribution
  <2>3. k \in DOMAIN layerFile(c, f) /\ layerFile(c, f)[k] = [array |-> c[k].array \o f[k].array]
    BY <2>1 DEF layerFile, Field
  <2>4. c[k].array \o f[k].array \in Seq(Word)
    BY <2>1, ConcatProperties
  <2> QED BY <2>1, <2>2, <2>3, <2>4 DEF IsArray
<1>2. CASE ~ HasField(f, k)
  <2>1. Contribution(f, k) = <<>> /\ <<>> \in Seq(Word)
    BY <1>2 DEF Contribution
  <2>2. k \in DOMAIN layerFile(c, f) /\ layerFile(c, f)[k] = c[k]
    BY <1>2 DEF layerFile, HasField
  <2>3. c[k].array \o <<>> = c[k].array
    BY ConcatEmptySeq
  <2> QED BY <2>1, <2>2, <2>3
<1> QED BY <1>1, <1>2

\* What one layer does to any other known field: the file's value replaces it.
LEMMA LayerReplaces ==
  ASSUME NEW c, NEW f, NEW k \in ScalarFields, k \in DOMAIN c
  PROVE  /\ k \in DOMAIN layerFile(c, f)
         /\ layerFile(c, f)[k] = IF HasField(f, k) THEN f[k] ELSE c[k]
<1>1. CASE HasField(f, k)
  <2>1. Readable(f) /\ k \in DOMAIN f /\ ~ IsArray(f[k])
    BY <1>1 DEF HasField, Readable
  <2> QED BY <1>1, <2>1 DEF layerFile
<1>2. CASE ~ HasField(f, k)
  BY <1>2 DEF layerFile, HasField
<1> QED BY <1>1, <1>2

\* The three files of a session, each with a text it can hold.
FilesOK(fs) == IsText(fs.workspace) /\ IsText(fs.user) /\ IsText(fs.local)

\* The list fields after the three layers.
LEMMA ListsAppended ==
  ASSUME NEW fs, FilesOK(fs), NEW k \in ArrayFields
  PROVE  /\ k \in DOMAIN Layered3(fs)
         /\ Layered3(fs)[k].array = Contribution(fs.workspace, k) \o Contribution(fs.user, k)
                                    \o Contribution(fs.local, k)
<1>0. k \in DOMAIN DefaultConfig /\ DefaultConfig[k] = [array |-> <<>>]
  BY DEF DefaultConfig
<1>1. IsArray(DefaultConfig[k]) /\ DefaultConfig[k].array \in Seq(Word) /\ DefaultConfig[k].array = <<>>
  BY <1>0 DEF IsArray
<1>2. /\ k \in DOMAIN Layered1(fs) /\ IsArray(Layered1(fs)[k])
      /\ Contribution(fs.workspace, k) \in Seq(Word) /\ Layered1(fs)[k].array \in Seq(Word)
      /\ Layered1(fs)[k].array = DefaultConfig[k].array \o Contribution(fs.workspace, k)
  BY <1>0, <1>1, LayerAppends DEF FilesOK, Layered1
<1>3. Layered1(fs)[k].array = Contribution(fs.workspace, k)
  <2>1. <<>> \o Contribution(fs.workspace, k) = Contribution(fs.workspace, k)
    BY <1>2, ConcatEmptySeq
  <2> QED BY <1>1, <1>2, <2>1
<1>4. /\ k \in DOMAIN Layered2(fs) /\ IsArray(Layered2(fs)[k])
      /\ Layered2(fs)[k].array \in Seq(Word)
      /\ Layered2(fs)[k].array = Layered1(fs)[k].array \o Contribution(fs.user, k)
  BY <1>2, LayerAppends DEF FilesOK, Layered2
<1>5. /\ k \in DOMAIN Layered3(fs)
      /\ Layered3(fs)[k].array = Layered2(fs)[k].array \o Contribution(fs.local, k)
  BY <1>4, LayerAppends DEF FilesOK, Layered3
<1> QED BY <1>3, <1>4, <1>5

\* The other fields after the three layers: the last file that has one decides.
LEMMA LastDecides ==
  ASSUME NEW fs, NEW k \in ScalarFields
  PROVE  /\ k \in DOMAIN Layered3(fs)
         /\ Layered3(fs)[k] = IF HasField(fs.local, k) THEN fs.local[k]
                              ELSE IF HasField(fs.user, k) THEN fs.user[k]
                              ELSE IF HasField(fs.workspace, k) THEN fs.workspace[k]
                              ELSE DefaultConfig[k]
<1>0. k \in DOMAIN DefaultConfig
  BY DEF DefaultConfig
<1>1. /\ k \in DOMAIN Layered1(fs)
      /\ Layered1(fs)[k] = IF HasField(fs.workspace, k) THEN fs.workspace[k] ELSE DefaultConfig[k]
  BY <1>0, LayerReplaces DEF Layered1
<1>2. /\ k \in DOMAIN Layered2(fs)
      /\ Layered2(fs)[k] = IF HasField(fs.user, k) THEN fs.user[k] ELSE Layered1(fs)[k]
  BY <1>1, LayerReplaces DEF Layered2
<1>3. /\ k \in DOMAIN Layered3(fs)
      /\ Layered3(fs)[k] = IF HasField(fs.local, k) THEN fs.local[k] ELSE Layered2(fs)[k]
  BY <1>2, LayerReplaces DEF Layered3
<1> QED BY <1>1, <1>2, <1>3

\* Joining the flags of at most two sources.
LEMMA JoinNone == mergedFlags(<<>>) = <<>>
<1> DEFINE P(J) == J = [i \in 0..Len(<<>>) |-> IF i = 0 THEN <<>> ELSE J[i-1] \o <<>>[i].flags]
           w == [i \in 0..0 |-> <<>>]
<1>1. mergedFlags(<<>>) = (CHOOSE J : P(J))[Len(<<>>)]
  BY DEF mergedFlags
<1>2. P(w)
  OBVIOUS
<1>3. P(CHOOSE J : P(J))
  <2> HIDE DEF P, w
  <2> QED BY <1>2
<1>4. (CHOOSE J : P(J))[0] = <<>>
  <2> DEFINE C == CHOOSE J : P(J)
  <2>1. C = [i \in 0..Len(<<>>) |-> IF i = 0 THEN <<>> ELSE C[i-1] \o <<>>[i].flags]
    BY <1>3
  <2> HIDE DEF C
  <2>2. C[0] = <<>>
    BY <2>1
  <2> QED BY <2>2 DEF C
<1> QED BY <1>1, <1>4

LEMMA JoinOne ==
  ASSUME NEW a, a.flags \in Seq(Word)
  PROVE  mergedFlags(<<a>>) = a.flags
<1> DEFINE P(J) == J = [i \in 0..Len(<<a>>) |-> IF i = 0 THEN <<>> ELSE J[i-1] \o <<a>>[i].flags]
           w == [i \in 0..1 |-> IF i = 0 THEN <<>> ELSE <<>> \o a.flags]
           C == CHOOSE J : P(J)
<1>1. mergedFlags(<<a>>) = C[Len(<<a>>)]
  BY DEF mergedFlags
<1>2. P(w)
  <2>1. Len(<<a>>) = 1 /\ <<a>>[1] = a
    OBVIOUS
  <2>2. \A i \in 0..1 : (i = 0 \/ i = 1) /\ (i = 1 => w[i-1] = <<>> /\ <<a>>[i] = a)
    BY <2>1
  <2> QED BY <2>1, <2>2
<1>3. P(C)
  <2> HIDE DEF P, w
  <2> QED BY <1>2
<1> HIDE DEF C
<1>4. C[0] = <<>> /\ C[1] = C[0] \o a.flags
  <2> DEFINE T(i) == C[i-1] \o <<a>>[i].flags
             G == [i \in 0..1 |-> IF i = 0 THEN <<>> ELSE T(i)]
  <2>1. C = G
    <3>1. Len(<<a>>) = 1
      OBVIOUS
    <3> QED BY <1>3, <3>1
  <2>2. T(1) = C[0] \o a.flags
    <3>1. 1-1 = 0 /\ <<a>>[1] = a
      OBVIOUS
    <3> QED BY <3>1
  <2> HIDE DEF T
  <2>3. G[0] = <<>> /\ G[1] = T(1)
    OBVIOUS
  <2> HIDE DEF G
  <2> QED BY <2>1, <2>2, <2>3
<1> QED BY <1>1, <1>4, ConcatEmptySeq

LEMMA JoinTwo ==
  ASSUME NEW a, NEW b, a.flags \in Seq(Word), b.flags \in Seq(Word)
  PROVE  mergedFlags(<<a, b>>) = a.flags \o b.flags
<1> DEFINE s == <<a, b>>
           P(J) == J = [i \in 0..Len(s) |-> IF i = 0 THEN <<>> ELSE J[i-1] \o s[i].flags]
           x == <<>> \o a.flags
           y == x \o b.flags
           w == [i \in 0..2 |-> IF i = 0 THEN <<>> ELSE IF i = 1 THEN x ELSE y]
           C == CHOOSE J : P(J)
<1>1. mergedFlags(s) = C[Len(s)]
  BY DEF mergedFlags
<1>0. Len(s) = 2 /\ s[1] = a /\ s[2] = b
  OBVIOUS
<1> HIDE DEF s
<1>2. P(w)
  <2>0. x = <<>> \o s[1].flags /\ y = x \o s[2].flags
    BY <1>0
  <2> HIDE DEF x, y
  <2>1. w[0] = <<>> /\ w[1] = x /\ w[2] = y
    OBVIOUS
  <2>2. w = [i \in 0..2 |-> w[i]]
    OBVIOUS
  <2> HIDE DEF w
  <2>3. w[1] = w[0] \o s[1].flags /\ w[2] = w[1] \o s[2].flags
    BY <2>0, <2>1
  <2>4. \A i \in 0..2 : i = 0 \/ (i = 1 /\ i-1 = 0) \/ (i = 2 /\ i-1 = 1)
    OBVIOUS
  <2>5. \A i \in 0..2 : w[i] = IF i = 0 THEN <<>> ELSE w[i-1] \o s[i].flags
    BY <2>1, <2>3, <2>4
  <2> QED BY <1>0, <2>2, <2>5
<1>3. P(C)
  <2> HIDE DEF P, w
  <2> QED BY <1>2
<1> HIDE DEF C
<1>4. C[0] = <<>> /\ C[1] = C[0] \o s[1].flags /\ C[2] = C[1] \o s[2].flags
  <2> DEFINE T(i) == C[i-1] \o s[i].flags
             G == [i \in 0..2 |-> IF i = 0 THEN <<>> ELSE T(i)]
  <2>1. C = G
    BY <1>0, <1>3
  <2>2. T(1) = C[0] \o s[1].flags /\ T(2) = C[1] \o s[2].flags
    <3>1. 1-1 = 0 /\ 2-1 = 1
      OBVIOUS
    <3> QED BY <3>1
  <2> HIDE DEF T
  <2>3. G[0] = <<>> /\ G[1] = T(1) /\ G[2] = T(2)
    OBVIOUS
  <2> HIDE DEF G
  <2> QED BY <2>1, <2>2, <2>3
<1> QED BY <1>0, <1>1, <1>4, ConcatEmptySeq DEF s

\* The words a file gives as flags.
LEMMA ExtractedFlags ==
  ASSUME NEW f, IsText(f)
  PROVE  extractFlags(f) \in Seq(Word)
<1>1. CASE HasField(f, "flags")
  <2>1. "flags" \in DOMAIN f /\ ~ IsArray(f["flags"]) /\ f \notin {Absent, Malformed}
    BY <1>1 DEF HasField, Readable, ScalarFields
  <2> QED BY <1>1, <2>1 DEF extractFlags, IsText
<1>2. CASE ~ HasField(f, "flags")
  BY <1>2 DEF extractFlags
<1> QED BY <1>1, <1>2

\* The flags of the configuration follow the rule of their own that Config.h states.
LEMMA FlagsMerged ==
  ASSUME NEW fs, FilesOK(fs)
  PROVE  /\ flagsByFile(fs) \in Seq(FlagSource)
         /\ mergedFlags(flagsByFile(fs)) = DocumentedFlags(fs)
<1> DEFINE W == extractFlags(fs.workspace)
           U == extractFlags(fs.user)
           L == extractFlags(fs.local)
           Src1(n, x) == [filePath |-> n, flags |-> x]
<1>1. W \in Seq(Word) /\ U \in Seq(Word) /\ L \in Seq(Word)
  BY ExtractedFlags DEF FilesOK
<1>2. fs["workspace"] = fs.workspace /\ fs["user"] = fs.user /\ fs["local"] = fs.local
  OBVIOUS
<1>3. flagsByFile(fs) =
        (IF W # <<>> THEN <<Src1("workspace", W)>> ELSE IF U = <<>> THEN <<>> ELSE <<Src1("user", U)>>)
        \o (IF L = <<>> THEN <<>> ELSE <<Src1("local", L)>>)
  BY <1>2 DEF flagsByFile
<1>4. DocumentedFlags(fs) = (IF W # <<>> THEN W ELSE U) \o L
  BY DEF DocumentedFlags
<1> HIDE DEF W, U, L
<1>5. \A n \in ConfFile, x \in Seq(Word) : Src1(n, x) \in FlagSource /\ Src1(n, x).flags = x
  BY DEF FlagSource
<1> HIDE DEF Src1
<1>6. \A x : <<>> \o <<x>> = <<x>> /\ <<x>> \o <<>> = <<x>> 
  OBVIOUS
<1>7. \A x, y \in FlagSource : <<x>> \o <<y>> = <<x, y>>
  <2> SUFFICES ASSUME NEW x \in FlagSource, NEW y \in FlagSource PROVE <<x>> \o <<y>> = <<x, y>>
    OBVIOUS
  <2>1. /\ <<x>> \in Seq(FlagSource) /\ <<y>> \in Seq(FlagSource) /\ <<x, y>> \in Seq(FlagSource)
        /\ Len(<<x>>) = 1 /\ Len(<<y>>) = 1 /\ Len(<<x, y>>) = 2
        /\ <<x>>[1] = x /\ <<y>>[1] = y /\ <<x, y>>[1] = x /\ <<x, y>>[2] = y
    OBVIOUS
  <2> DEFINE z == <<x>> \o <<y>>
             p == <<x, y>>
  <2>2. z \in Seq(FlagSource) /\ Len(z) = 2 /\ z[1] = x /\ z[2] = y
    BY <2>1, ConcatProperties
  <2>3. p \in Seq(FlagSource) /\ Len(p) = 2 /\ p[1] = x /\ p[2] = y
    BY <2>1
  <2> HIDE DEF z, p
  <2>4. z = p
    BY <2>2, <2>3, SeqEqual
  <2> QED BY <2>4 DEF z, p
<1> DEFINE first == IF W # <<>> THEN W ELSE U
           name == IF W # <<>> THEN "workspace" ELSE "user"
<1>8. /\ first \in Seq(Word) /\ name \in ConfFile /\ "local" \in ConfFile
      /\ first = <<>> => W = <<>> /\ U = <<>>
      /\ flagsByFile(fs) = (IF first = <<>> THEN <<>> ELSE <<Src1(name, first)>>)
                           \o (IF L = <<>> THEN <<>> ELSE <<Src1("local", L)>>)
      /\ DocumentedFlags(fs) = first \o L
  BY <1>1, <1>3, <1>4 DEF ConfFile
<1> HIDE DEF first, name
<1>9. CASE first = <<>> /\ L = <<>>
  <2>1. flagsByFile(fs) = <<>> /\ DocumentedFlags(fs) = <<>>
    BY <1>8, <1>9
  <2> QED BY <2>1, JoinNone
<1>10. CASE first = <<>> /\ L # <<>>
  <2>1. flagsByFile(fs) = <<Src1("local", L)>>
    BY <1>6, <1>8, <1>10
  <2>2. DocumentedFlags(fs) = L
    BY <1>1, <1>8, <1>10, ConcatEmptySeq
  <2>3. Src1("local", L) \in FlagSource /\ Src1("local", L).flags = L
    BY <1>1, <1>5, <1>8
  <2> QED BY <1>1, <2>1, <2>2, <2>3, JoinOne
<1>11. CASE first # <<>> /\ L = <<>>
  <2>1. flagsByFile(fs) = <<Src1(name, first)>>
    BY <1>6, <1>8, <1>11
  <2>2. DocumentedFlags(fs) = first
    BY <1>1, <1>8, <1>11, ConcatEmptySeq
  <2>3. Src1(name, first) \in FlagSource /\ Src1(name, first).flags = first
    BY <1>1, <1>5, <1>8
  <2>4. mergedFlags(<<Src1(name, first)>>) = first /\ <<Src1(name, first)>> \in Seq(FlagSource)
    BY <1>8, <2>3, JoinOne
  <2> QED BY <2>1, <2>2, <2>4
<1>12. CASE first # <<>> /\ L # <<>>
  <2>2. /\ Src1(name, first) \in FlagSource /\ Src1(name, first).flags = first
        /\ Src1("local", L) \in FlagSource /\ Src1("local", L).flags = L
    BY <1>1, <1>5, <1>8
  <2>1. flagsByFile(fs) = <<Src1(name, first), Src1("local", L)>>
    BY <1>7, <1>8, <1>12, <2>2
  <2>3. <<Src1(name, first), Src1("local", L)>> \in Seq(FlagSource)
    BY <2>2
  <2>4. mergedFlags(<<Src1(name, first), Src1("local", L)>>) = first \o L
    BY <1>1, <1>8, <2>2, JoinTwo
  <2> QED BY <1>8, <2>1, <2>3, <2>4
<1> QED BY <1>9, <1>10, <1>11, <1>12

\* The configuration the server works with is the documented merge of the files.
LEMMA FromFilesMerges ==
  ASSUME NEW fs, FilesOK(fs)
  PROVE  /\ MergedAsDocumented(fromFiles(fs), fs)
         /\ fromFiles(fs).flagsByFile \in Seq(FlagSource)
<1> DEFINE c == fromFiles(fs)
           L == Layered3(fs)
<1>1. c.fields = [L EXCEPT !["buildPattern"] = BuildPattern(fs, L),
                           !["flags"] = [scalar |-> mergedFlags(flagsByFile(fs))]]
      /\ c.flagsByFile = flagsByFile(fs)
  BY DEF fromFiles
<1>2. "flags" \in DOMAIN L /\ "buildPattern" \in DOMAIN L
  BY LastDecides DEF ScalarFields
<1> HIDE DEF c, L
<1>3. c.fields["flags"] = [scalar |-> mergedFlags(flagsByFile(fs))]
  BY <1>1, <1>2
<1>4. \A k \in DOMAIN L \ {"flags", "buildPattern"} : c.fields[k] = L[k]
  BY <1>1
<1>5. ASSUME NEW k \in ArrayFields
      PROVE  c.fields[k].array = Contribution(fs.workspace, k) \o Contribution(fs.user, k)
                                 \o Contribution(fs.local, k)
  <2>1. k \notin {"flags", "buildPattern"}
    BY DEF ArrayFields
  <2>2. k \in DOMAIN L
    BY ListsAppended DEF L
  <2>3. L[k].array = Contribution(fs.workspace, k) \o Contribution(fs.user, k)
                     \o Contribution(fs.local, k)
    BY ListsAppended DEF L
  <2> QED BY <1>4, <2>1, <2>2, <2>3
<1>6. ASSUME NEW k \in ScalarFields \ {"flags", "buildPattern"}
      PROVE  \/ \E i \in 1..3 : /\ HasField(fs[Order[i]], k) /\ c.fields[k] = fs[Order[i]][k]
                                 /\ \A j \in i+1..3 : ~ HasField(fs[Order[j]], k)
             \/ /\ c.fields[k] = DefaultConfig[k]
                /\ \A i \in 1..3 : ~ HasField(fs[Order[i]], k)
  <2>1. /\ k \in DOMAIN L
        /\ c.fields[k] = IF HasField(fs.local, k) THEN fs.local[k]
                         ELSE IF HasField(fs.user, k) THEN fs.user[k]
                         ELSE IF HasField(fs.workspace, k) THEN fs.workspace[k]
                         ELSE DefaultConfig[k]
    BY <1>4, LastDecides DEF L
  <2>2. fs[Order[1]] = fs.workspace /\ fs[Order[2]] = fs.user /\ fs[Order[3]] = fs.local
    BY DEF Order
  <2> HIDE DEF HasField
  <2>3. CASE HasField(fs.local, k)
    <3>1. /\ HasField(fs[Order[3]], k) /\ c.fields[k] = fs[Order[3]][k]
          /\ \A j \in 3+1..3 : ~ HasField(fs[Order[j]], k)
      BY <2>1, <2>2, <2>3
    <3> QED BY <3>1
  <2>4. CASE HasField(fs.user, k) /\ ~ HasField(fs.local, k)
    <3>1. \A j \in 2+1..3 : j = 3
      OBVIOUS
    <3>2. /\ HasField(fs[Order[2]], k) /\ c.fields[k] = fs[Order[2]][k]
          /\ \A j \in 2+1..3 : ~ HasField(fs[Order[j]], k)
      BY <2>1, <2>2, <2>4, <3>1
    <3> QED BY <3>2
  <2>5. CASE HasField(fs.workspace, k) /\ ~ HasField(fs.user, k) /\ ~ HasField(fs.local, k)
    <3>1. \A j \in 1+1..3 : j = 2 \/ j = 3
      OBVIOUS
    <3>2. /\ HasField(fs[Order[1]], k) /\ c.fields[k] = fs[Order[1]][k]
          /\ \A j \in 1+1..3 : ~ HasField(fs[Order[j]], k)
      BY <2>1, <2>2, <2>5, <3>1
    <3> QED BY <3>2
  <2>6. CASE ~ HasField(fs.workspace, k) /\ ~ HasField(fs.user, k) /\ ~ HasField(fs.local, k)
    <3>1. \A i \in 1..3 : i = 1 \/ i = 2 \/ i = 3
      OBVIOUS
    <3> QED BY <2>1, <2>2, <2>6, <3>1
  <2> QED BY <2>3, <2>4, <2>5, <2>6
<1>7. c.fields["flags"].scalar = DocumentedFlags(fs) /\ c.flagsByFile \in Seq(FlagSource)
  BY <1>1, <1>3, FlagsMerged
<1> QED BY <1>5, <1>6, <1>7 DEF MergedAsDocumented, c

-----------------------------------------------------------------------------
(* The operations on srv.                                                   *)

\* What a session reads are texts, and a build they name is a build file.
LEMMA VisibleText ==
  ASSUME NEW fs, \A n \in ConfFile : IsConfText(fs[n])
  PROVE  /\ FilesOK(VisibleFiles(fs))
         /\ fromFiles(VisibleFiles(fs)).fields["build"].scalar \in BuildFile \cup {Unset}
<1> DEFINE v == VisibleFiles(fs)
           L == Layered3(v)
<1>1. IsConfText(Absent)
  BY DEF IsConfText, IsText, HasField, Readable
<1>2. IsConfText(v.workspace) /\ IsConfText(v.user) /\ IsConfText(v.local)
  BY <1>1 DEF VisibleFiles, ConfFile
<1> HIDE DEF v
<1>3. "build" \in ScalarFields /\ "build" \notin {"flags", "buildPattern"}
  BY DEF ScalarFields
<1>4. /\ "build" \in DOMAIN L
      /\ L["build"] = IF HasField(v.local, "build") THEN v.local["build"]
                      ELSE IF HasField(v.user, "build") THEN v.user["build"]
                      ELSE IF HasField(v.workspace, "build") THEN v.workspace["build"]
                      ELSE DefaultConfig["build"]
  BY <1>3, LastDecides
<1>5. DefaultConfig["build"].scalar = Unset
  BY DEF DefaultConfig, ArrayFields, ScalarFields
<1>6. L["build"].scalar \in BuildFile \cup {Unset}
  <2>1. ASSUME NEW f, IsConfText(f), HasField(f, "build")
        PROVE  f["build"].scalar \in BuildFile \cup {Unset}
    BY <1>3, <2>1 DEF IsConfText, HasField, Readable
  <2> QED BY <1>2, <1>4, <1>5, <2>1
<1> HIDE DEF L
<1>7. fromFiles(v).fields = [L EXCEPT !["buildPattern"] = BuildPattern(v, L),
                                      !["flags"] = [scalar |-> mergedFlags(flagsByFile(v))]]
  BY DEF fromFiles, L
<1>8. fromFiles(v).fields["build"] = L["build"]
  BY <1>4, <1>7
<1> QED BY <1>2, <1>6, <1>8 DEF FilesOK, IsConfText, v

\* A creation that throws changes only the mark; one that does not leaves a driver
\* for the build file and the flags, with the option of the driver before it.
LEMMA CreateFacts ==
  ASSUME NEW s, SrvType(s), NEW build \in BuildFile \cup {None}, NEW throws \in BOOLEAN,
         NEW r, r = create(s, build, throws)
  PROVE  /\ SrvType(r) /\ r.config = s.config /\ r.buildfile = s.buildfile /\ r.index = s.index
         /\ r.shown = s.shown /\ r.cut = s.cut
         /\ throws => r.thrown /\ r.driver = s.driver
         /\ ~ throws => /\ r.thrown = s.thrown /\ r.driver \in Driver
                        /\ r.driver.build = build /\ r.driver.flags = r.config.flagsByFile
                        /\ s.driver \in Driver => r.driver.resolve = s.driver.resolve
<1>1. CASE throws
  BY <1>1 DEF create, SrvType
<1>2. CASE ~ throws
  <2> DEFINE keep == s.driver # None /\ s.driver.resolve
             d == [build |-> build, flags |-> s.config.flagsByFile, resolve |-> keep, comp |-> FALSE]
  <2>1. keep \in BOOLEAN
    BY DEF SrvType, Driver
  <2>2. r = [s EXCEPT !.driver = d]
    BY <1>2 DEF create
  <2> HIDE DEF keep
  <2>3. d \in Driver /\ d.build = build /\ d.flags = s.config.flagsByFile /\ d.resolve = keep
    BY <2>1 DEF SrvType, Driver
  <2> HIDE DEF d
  <2>4. /\ SrvType(r) /\ r.config = s.config /\ r.buildfile = s.buildfile /\ r.index = s.index
        /\ r.shown = s.shown /\ r.cut = s.cut /\ r.thrown = s.thrown /\ r.driver = d
    BY <2>2, <2>3 DEF SrvType
  <2>5. s.driver \in Driver => keep = s.driver.resolve
    BY SessionAssumption DEF keep, Driver
  <2> QED BY <1>2, <2>3, <2>4, <2>5
<1> QED BY <1>1, <1>2

\* What setBuildFile and setExplore leave behind when the last one did not throw.
Swapped(s, r, build, throws) ==
  /\ SrvType(r) /\ r.config = s.config /\ r.index = s.index /\ r.shown = s.shown /\ r.cut = s.cut
  /\ r.buildfile = build
  /\ throws => r.thrown /\ r.driver = s.driver
  /\ ~ throws => /\ ~ r.thrown /\ r.driver \in Driver
                 /\ r.driver.build = build /\ r.driver.flags = r.config.flagsByFile
                 /\ s.driver \in Driver => r.driver.resolve = s.driver.resolve

LEMMA SetExploreFacts ==
  ASSUME NEW s, SrvType(s), ~ s.thrown, NEW throws \in BOOLEAN
  PROVE  Swapped(s, setExplore(s, throws), None, throws)
<1> DEFINE q == [s EXCEPT !.buildfile = None]
           r == create(q, None, throws)
<1>1. /\ SrvType(q) /\ q.config = s.config /\ q.buildfile = None /\ q.index = s.index
      /\ q.shown = s.shown /\ q.cut = s.cut /\ q.driver = s.driver /\ q.thrown = s.thrown
  BY DEF SrvType
<1>2. setExplore(s, throws) = r
  BY DEF setExplore
<1> HIDE DEF q
<1>3. /\ SrvType(r) /\ r.config = q.config /\ r.buildfile = q.buildfile /\ r.index = q.index
      /\ r.shown = q.shown /\ r.cut = q.cut
      /\ throws => r.thrown /\ r.driver = q.driver
      /\ ~ throws => /\ r.thrown = q.thrown /\ r.driver \in Driver
                     /\ r.driver.build = None /\ r.driver.flags = r.config.flagsByFile
                     /\ q.driver \in Driver => r.driver.resolve = q.driver.resolve
  BY <1>1, CreateFacts
<1> HIDE DEF r
<1> QED BY <1>1, <1>2, <1>3 DEF Swapped

LEMMA SetBuildFileFacts ==
  ASSUME NEW s, SrvType(s), ~ s.thrown, NEW b \in BuildFile \cup {None}, NEW throws \in BOOLEAN
  PROVE  Swapped(s, setBuildFile(s, b, throws), b, throws)
<1> DEFINE q == [s EXCEPT !.buildfile = b]
           c == create(q, b, throws)
           r == setBuildFile(s, b, throws)
<1>1. /\ SrvType(q) /\ q.config = s.config /\ q.buildfile = b /\ q.index = s.index
      /\ q.shown = s.shown /\ q.cut = s.cut /\ q.driver = s.driver /\ q.thrown = s.thrown
  BY DEF SrvType
<1>2. r = IF c.thrown THEN c ELSE [c EXCEPT !.driver.comp = TRUE]
  BY DEF setBuildFile
<1> HIDE DEF q, r
<1>3. /\ SrvType(c) /\ c.config = q.config /\ c.buildfile = q.buildfile /\ c.index = q.index
      /\ c.shown = q.shown /\ c.cut = q.cut
      /\ throws => c.thrown /\ c.driver = q.driver
      /\ ~ throws => /\ c.thrown = q.thrown /\ c.driver \in Driver
                     /\ c.driver.build = b /\ c.driver.flags = c.config.flagsByFile
                     /\ q.driver \in Driver => c.driver.resolve = q.driver.resolve
  BY <1>1, CreateFacts
<1> HIDE DEF c
<1>4. CASE throws
  BY <1>1, <1>2, <1>3, <1>4 DEF Swapped, SrvType, r
<1>5. CASE ~ throws
  <2> DEFINE d == [c.driver EXCEPT !.comp = TRUE]
  <2>1. c.thrown = FALSE /\ r = [c EXCEPT !.driver = d]
    BY <1>1, <1>2, <1>3, <1>5 DEF SrvType
  <2>2. /\ d \in Driver /\ d.build = c.driver.build /\ d.flags = c.driver.flags
        /\ d.resolve = c.driver.resolve
    BY <1>3, <1>5 DEF Driver
  <2> HIDE DEF d
  <2>3. /\ SrvType(r) /\ r.config = c.config /\ r.buildfile = c.buildfile /\ r.index = c.index
        /\ r.shown = c.shown /\ r.cut = c.cut /\ r.thrown = c.thrown /\ r.driver = d
    BY <1>3, <2>1, <2>2 DEF SrvType
  <2> QED BY <1>1, <1>3, <1>5, <2>1, <2>2, <2>3 DEF Swapped, r
<1> QED BY <1>4, <1>5

\* What loadConfig leaves behind when it is told to index.
Loaded(s, r, c, throws) ==
  /\ SrvType(r) /\ r.config = c
  /\ throws => r.thrown /\ r.cut /\ r.driver = s.driver /\ r.index = s.index
  /\ ~ throws => /\ ~ r.thrown /\ r.driver \in Driver /\ r.driver.build = r.buildfile
                 /\ r.driver.flags = c.flagsByFile
                 /\ s.driver \in Driver => r.driver.resolve = s.driver.resolve
                 /\ r.shown = c /\ r.index = IF client.folder THEN src ELSE s.index

\* loadConfig first assigns the configuration and nothing else.
LEMMA Reconfigured ==
  ASSUME NEW s, s = [config |-> s.config, buildfile |-> s.buildfile, driver |-> s.driver,
                     index |-> s.index, shown |-> s.shown, thrown |-> s.thrown, cut |-> s.cut],
         NEW c
  PROVE  [s EXCEPT !.config = c] =
           [config |-> c, buildfile |-> s.buildfile, driver |-> s.driver, index |-> s.index,
            shown |-> s.shown, thrown |-> s.thrown, cut |-> s.cut]
OBVIOUS

LEMMA LoadConfigFacts ==
  ASSUME NEW s, SrvType(s), ~ s.thrown, NEW throws \in BOOLEAN, src \in [Src -> Nat],
         NEW c, c.flagsByFile \in Seq(FlagSource),
         c.fields["build"].scalar \in BuildFile \cup {Unset}
  PROVE  Loaded(s, loadConfig(s, c, TRUE, throws), c, throws)
<1> DEFINE build == c.fields["build"].scalar
           next == [s EXCEPT !.config = c]
           swap == IF build # Unset THEN setBuildFile(next, build, throws) ELSE setExplore(next, throws)
           index == startIndexing(swap)
           r == loadConfig(s, c, TRUE, throws)
<1>1. r = IF swap.thrown THEN [swap EXCEPT !.cut = TRUE] ELSE [index EXCEPT !.shown = c, !.cut = FALSE]
  BY DEF loadConfig, needsIndexing
<1>2. /\ SrvType(next) /\ next.config = c /\ next.index = s.index /\ next.driver = s.driver
      /\ ~ next.thrown
  <2>1. next = [config |-> c, buildfile |-> s.buildfile, driver |-> s.driver, index |-> s.index,
                shown |-> s.shown, thrown |-> s.thrown, cut |-> s.cut]
    BY Reconfigured DEF SrvType
  <2>2. /\ next.config = c /\ next.index = s.index /\ next.driver = s.driver /\ next.cut = s.cut
        /\ next.shown = s.shown /\ next.buildfile = s.buildfile /\ next.thrown = s.thrown
    BY <2>1
  <2> HIDE DEF next
  <2> QED BY <2>1, <2>2 DEF SrvType
<1> HIDE DEF next, r
<1>3. PICK b : Swapped(next, swap, b, throws)
  <2>1. CASE build # Unset
    BY <1>2, <2>1, SetBuildFileFacts
  <2>2. CASE build = Unset
    BY <1>2, <2>2, SetExploreFacts
  <2> QED BY <2>1, <2>2
<1>4. index = IF client.folder THEN [swap EXCEPT !.index = src] ELSE swap
  BY DEF startIndexing
<1> HIDE DEF swap, index
<1>5. CASE throws
  <2>1. r = [swap EXCEPT !.cut = TRUE]
    BY <1>1, <1>3, <1>5 DEF Swapped
  <2> QED BY <1>2, <1>3, <1>5, <2>1 DEF Swapped, Loaded, SrvType, r
<1>6. CASE ~ throws
  <2>1. r = [index EXCEPT !.shown = c, !.cut = FALSE]
    BY <1>1, <1>3, <1>6 DEF Swapped
  <2>2. /\ SrvType(index) /\ index.config = c /\ index.buildfile = swap.buildfile
        /\ index.driver = swap.driver /\ index.thrown = FALSE
        /\ index.index = IF client.folder THEN src ELSE s.index
    BY <1>2, <1>3, <1>4, <1>6 DEF Swapped, SrvType
  <2>3. /\ SrvType(r) /\ r.config = c /\ r.buildfile = swap.buildfile
        /\ r.driver = swap.driver /\ r.thrown = FALSE /\ r.cut = FALSE /\ r.shown = c
        /\ r.index = index.index
    BY <2>1, <2>2 DEF SrvType
  <2> QED BY <1>2, <1>3, <1>6, <2>2, <2>3 DEF Swapped, Loaded, r
<1> QED BY <1>5, <1>6

-----------------------------------------------------------------------------
(* The lists getInitialize keeps by hand.                                   *)

\* Which of the registered methods are requests.
LEMMA MethodKinds ==
  /\ InitializeRegisters \subseteq RequestMethods \cup NotificationMethods
  /\ {"initialize", "shutdown"} \subseteq RequestMethods
  /\ "workspace/didChangeWatchedFiles" \notin RequestMethods /\ "initialized" \notin RequestMethods
  /\ "initialized" \in NotificationMethods
<1> USE DEF RequestMethods, NotificationMethods
<1>1. {"textDocument/didOpen", "textDocument/didChange", "textDocument/didSave", "textDocument/didClose"}
      \subseteq DocumentNotifications
  BY DEF DocumentNotifications
<1>2. "initialized" \in NotebookAndLifeNotifications
      /\ "workspace/didChangeWatchedFiles" \in WorkspaceNotifications
  BY DEF NotebookAndLifeNotifications, WorkspaceNotifications
<1>3. {"textDocument/definition", "textDocument/completion", "textDocument/codeAction", "shutdown"}
      \subseteq PositionRequests
  BY DEF PositionRequests
<1>4. {"textDocument/hover", "textDocument/documentSymbol", "textDocument/documentLink",
       "textDocument/documentHighlight"} \subseteq DocumentRequests
  BY DEF DocumentRequests
<1>5. {"completionItem/resolve", "callHierarchy/incomingCalls", "callHierarchy/outgoingCalls",
       "initialize"} \subseteq ResolveRequests
  BY DEF ResolveRequests
<1>6. {"textDocument/inlayHint", "textDocument/prepareCallHierarchy"} \subseteq FormatAndHintRequests
  BY DEF FormatAndHintRequests
<1>7. {"textDocument/references", "textDocument/rename"} \subseteq TypeAndTokenRequests
  BY DEF TypeAndTokenRequests
<1>8. {"workspace/executeCommand", "workspace/symbol"} \subseteq WorkspaceRequests
  BY DEF WorkspaceRequests
<1>9. InitializeRegisters \subseteq RequestMethods \cup NotificationMethods
  BY <1>1, <1>2, <1>3, <1>4, <1>5, <1>6, <1>7, <1>8 DEF InitializeRegisters
<1>10. \A x \in {"workspace/didChangeWatchedFiles", "initialized"} :
         /\ x \notin WorkspaceRequests /\ x \notin TypeAndTokenRequests
         /\ x \notin FormatAndHintRequests /\ x \notin DocumentRequests
         /\ x \notin PositionRequests /\ x \notin ResolveRequests
  BY DEF WorkspaceRequests, TypeAndTokenRequests, FormatAndHintRequests, DocumentRequests,
         PositionRequests, ResolveRequests
<1> QED BY <1>2, <1>3, <1>5, <1>9, <1>10

\* The capabilities entitle a client to exactly the registered methods, but for the
\* two notifications that need none.
LEMMA OfferedMethods ==
  UNION {CapabilityMethods[c] : c \in InitializeCapabilities} =
    InitializeRegisters \ {"workspace/didChangeWatchedFiles", "initialized"}
<1> DEFINE All == UNION {CapabilityMethods[c] : c \in InitializeCapabilities}
<1>1. \A x : x \in All <=> \E c \in InitializeCapabilities : x \in CapabilityMethods[c]
  OBVIOUS
<1> HIDE DEF All
<1>2. /\ CapabilityMethods["textDocumentSync"] = DocumentNotifications \ {"textDocument/willSave"}
      /\ CapabilityMethods["completionProvider"] = {"textDocument/completion"}
      /\ CapabilityMethods["completionResolve"] = {"completionItem/resolve"}
      /\ CapabilityMethods["hoverProvider"] = {"textDocument/hover"}
      /\ CapabilityMethods["definitionProvider"] = {"textDocument/definition"}
      /\ CapabilityMethods["referencesProvider"] = {"textDocument/references"}
      /\ CapabilityMethods["documentHighlightProvider"] = {"textDocument/documentHighlight"}
      /\ CapabilityMethods["documentSymbolProvider"] = {"textDocument/documentSymbol"}
  BY DEF CapabilityMethods
<1>3. /\ CapabilityMethods["codeActionProvider"] = {"textDocument/codeAction"}
      /\ CapabilityMethods["documentLinkProvider"] = {"textDocument/documentLink"}
      /\ CapabilityMethods["workspaceSymbolProvider"] = {"workspace/symbol"}
      /\ CapabilityMethods["renameProvider"] = {"textDocument/rename"}
      /\ CapabilityMethods["executeCommandProvider"] = {"workspace/executeCommand"}
      /\ CapabilityMethods["callHierarchyProvider"] =
           {"textDocument/prepareCallHierarchy", "callHierarchy/incomingCalls",
            "callHierarchy/outgoingCalls"}
      /\ CapabilityMethods["inlayHintProvider"] = {"textDocument/inlayHint"}
  BY DEF CapabilityMethods
<1>4. DocumentNotifications \ {"textDocument/willSave"} =
        {"textDocument/didOpen", "textDocument/didChange", "textDocument/didSave", "textDocument/didClose"}
  BY DEF DocumentNotifications
<1>5. ASSUME NEW x \in All
      PROVE  x \in InitializeRegisters \ {"workspace/didChangeWatchedFiles", "initialized"}
  BY <1>1, <1>2, <1>3, <1>4 DEF InitializeCapabilities, InitializeRegisters
<1>6. ASSUME NEW x \in InitializeRegisters \ {"workspace/didChangeWatchedFiles", "initialized"}
      PROVE  x \in All
  BY <1>1, <1>2, <1>3, <1>4 DEF InitializeCapabilities, InitializeRegisters
<1> QED BY <1>5, <1>6 DEF All

\* Registration serves what is offered, commands included, and offers what it serves.
LEMMA RegisteredServes ==
  /\ Construct.requests = {"initialize", "shutdown"}
  /\ Registered.requests = (InitializeRegisters \cap RequestMethods) \cup {"initialize", "shutdown"}
  /\ Registered.notifications = InitializeRegisters \cap NotificationMethods
  /\ Registered.commands = DesignCommands \cup OtherCommands
  /\ registerCommand(register(Construct, InitializeRegisters), DesignCommands \cup OtherCommands) = Registered
  /\ registerCommand(register(Registered, InitializeRegisters), DesignCommands \cup OtherCommands) = Registered
<1> DEFINE C == DesignCommands \cup OtherCommands
           N == InitializeRegisters \cap NotificationMethods
           Q == InitializeRegisters \cap RequestMethods
           two == {"initialize", "shutdown"}
<1>1. two \cap RequestMethods = two
  BY MethodKinds
<1>2. "initialize" \notin NotificationMethods /\ "shutdown" \notin NotificationMethods
  BY DEF NotificationMethods, WorkspaceNotifications, DocumentNotifications,
         NotebookAndLifeNotifications, ProtocolNotifications
<1>3. two \cap NotificationMethods = {}
  BY <1>2
<1> HIDE DEF two, N, Q, C
<1>4. Construct = [requests |-> two, notifications |-> {}, commands |-> {}]
  <2>1. Construct = [requests |-> {} \cup (two \cap RequestMethods),
                     notifications |-> {} \cup (two \cap NotificationMethods), commands |-> {}]
    BY DEF Construct, register, two
  <2>2. {} \cup (two \cap RequestMethods) = two /\ {} \cup (two \cap NotificationMethods) = {}
    BY <1>1, <1>3
  <2> QED BY <2>1, <2>2
<1>5. ASSUME NEW h
      PROVE  registerCommand(register(h, InitializeRegisters), C) =
               [requests |-> h.requests \cup Q, notifications |-> h.notifications \cup N,
                commands |-> h.commands \cup C]
  BY DEF register, registerCommand, N, Q
<1>6. Registered = registerCommand(register(Construct, InitializeRegisters), C)
  BY DEF Registered, C
<1>7. {} \cup N = N /\ {} \cup C = C /\ (two \cup Q) \cup Q = two \cup Q /\ N \cup N = N /\ C \cup C = C
  OBVIOUS
<1>8. Registered = [requests |-> two \cup Q, notifications |-> N, commands |-> C]
  BY <1>4, <1>5, <1>6, <1>7
<1>9. registerCommand(register(Registered, InitializeRegisters), C) = Registered
  BY <1>5, <1>7, <1>8
<1> QED BY <1>4, <1>6, <1>8, <1>9 DEF two, N, Q, C

\* So every method that initialize offers has a handler, and no other request has.
LEMMA HandshakeServes ==
  LET All == UNION {CapabilityMethods[c] : c \in InitializeCapabilities}
  IN  /\ All \subseteq Registered.requests \cup Registered.notifications
      /\ Registered.requests = (All \cap RequestMethods) \cup {"initialize", "shutdown"}
<1> DEFINE All == UNION {CapabilityMethods[c] : c \in InitializeCapabilities}
<1>0. All = InitializeRegisters \ {"workspace/didChangeWatchedFiles", "initialized"}
  BY OfferedMethods
<1> HIDE DEF All
<1>1. InitializeRegisters \cap RequestMethods = All \cap RequestMethods
  BY <1>0, MethodKinds
<1>2. All \subseteq InitializeRegisters
  BY <1>0
<1>3. Registered.requests = (InitializeRegisters \cap RequestMethods) \cup {"initialize", "shutdown"}
      /\ Registered.notifications = InitializeRegisters \cap NotificationMethods
  BY RegisteredServes
<1>4. InitializeRegisters \subseteq RequestMethods \cup NotificationMethods
  BY MethodKinds
<1> QED BY <1>1, <1>2, <1>3, <1>4 DEF All

-----------------------------------------------------------------------------
(* The inductive invariant.                                                 *)

\* A driver as the client negotiated it and, unless the last replacement of it or
\* the last load of the configuration threw, as the configuration calls for.
Kept(s) ==
  /\ SrvType(s) /\ s.driver \in Driver /\ s.driver.resolve = client.resolve
  /\ ~ s.cut => s.shown = s.config

Following(s) ==
  /\ Kept(s)
  /\ ~ s.thrown => s.driver.build = s.buildfile /\ s.driver.flags = s.config.flagsByFile

\* What the invariant says of the server's state once it is initialized.
LEMMA InvFollowing ==
  ASSUME SessionInv, advertised # {}
  PROVE  /\ Following(srv) /\ handlers = Registered /\ advertised = InitializeCapabilities
         /\ phase # "fresh"
<1>1. None \notin Driver
  BY SessionAssumption
<1> QED BY <1>1 DEF SessionInv, TypeOK, SrvType, Handshake, NegotiatedKept, DriverFollowsConfig, Following, Kept

\* What a step has to show.
LEMMA StepInv ==
  ASSUME SessionInv, UNCHANGED client, TypeOK', Handshake', reply' \notin {"unanswered", "unknown"},
         advertised' # {} => Following(srv'), ConfigCurrent', IndexHears'
  PROVE  SessionInv'
<1>1. OfferedIsServed'
  <2>1. ASSUME advertised' # {}
        PROVE  /\ Offered' \subseteq handlers'.requests \cup handlers'.notifications
               /\ handlers'.requests = (Offered' \cap RequestMethods) \cup {"initialize", "shutdown"}
    <3>1. advertised' = InitializeCapabilities /\ handlers' = Registered
      BY <2>1 DEF Handshake
    <3>2. Offered' = UNION {CapabilityMethods[c] : c \in InitializeCapabilities}
      BY <3>1 DEF Offered
    <3> HIDE DEF Offered
    <3> QED BY <3>1, <3>2, HandshakeServes
  <2> QED BY <2>1 DEF OfferedIsServed
<1>2. NegotiatedKept' /\ DriverFollowsConfig'
  <2>1. None \notin Driver
    BY SessionAssumption
  <2> QED BY <2>1 DEF NegotiatedKept, DriverFollowsConfig, Following, Kept
<1> QED BY <1>1, <1>2 DEF SessionInv

\* The initial state.
LEMMA InitInv == Init => SessionInv
<1> SUFFICES ASSUME Init PROVE SessionInv
  OBVIOUS
<1>1. SrvType(srv)
  <2>1. srv = [config |-> [fields |-> DefaultConfig, flagsByFile |-> <<>>],
               buildfile |-> None, driver |-> None, index |-> [f \in Src |-> 0],
               shown |-> None, thrown |-> FALSE, cut |-> FALSE]
    BY DEF Init
  <2> DEFINE cfg == [fields |-> DefaultConfig, flagsByFile |-> <<>>]
             idx == [f \in Src |-> 0]
  <2>2. cfg.flagsByFile \in Seq(FlagSource) /\ idx \in [Src -> Nat]
    OBVIOUS
  <2> HIDE DEF cfg, idx
  <2> QED BY <2>1, <2>2 DEF SrvType, cfg, idx
<1>2. DOMAIN files = ConfFile /\ \A n \in ConfFile : IsConfText(files[n])
  BY SessionAssumption DEF Init
<1>3. client \in [resolve : BOOLEAN, folder : BOOLEAN]
  BY SessionAssumption DEF Init
<1>4. TypeOK
  BY <1>1, <1>2, <1>3 DEF Init, TypeOK
<1>5. ~ srv.thrown
  BY DEF Init
<1>6. Handshake
  BY <1>5 DEF Init, Handshake
<1> QED BY <1>4, <1>6 DEF Init, SessionInv, OfferedIsServed, NegotiatedKept, DriverFollowsConfig,
                          ConfigCurrent, IndexHears

\* Steps that only answer, or end the session.
LEMMA QuietInv ==
  ASSUME SessionInv, BeforeInitialize \/ Query \/ ReadCommand \/ Shutdown \/ Exit
  PROVE  SessionInv'
<1>1. UNCHANGED <<handlers, advertised, events, watching, srv, missed, env>>
  BY DEF BeforeInitialize, Query, ReadCommand, Shutdown, Exit
<1>2. phase' \in {"fresh", "running", "down", "exited"} /\ (phase' = "fresh" => phase = "fresh")
  BY DEF BeforeInitialize, Query, ReadCommand, Shutdown, Exit, SessionInv, TypeOK
<1>3. "shutdown" \in handlers.requests
  BY RegisteredServes DEF SessionInv, Handshake
<1>4. reply' \notin {"unanswered", "unknown"}
  <2>1. CASE BeforeInitialize
    BY <2>1 DEF BeforeInitialize
  <2>2. CASE Query
    <3>1. PICK m \in Offered \cap RequestMethods, throws \in BOOLEAN :
                 reply' = processRequest(m, throws)
      BY <2>2 DEF Query
    <3>2. Offered \cap RequestMethods \subseteq handlers.requests
      BY <2>2 DEF Query, SessionInv, OfferedIsServed
    <3> QED BY <3>1, <3>2 DEF processRequest
  <2>3. CASE Shutdown
    BY <1>3, <2>3 DEF Shutdown, processRequest
  <2>4. CASE Exit
    BY <2>4 DEF Exit, SessionInv, OfferedIsServed
  <2>5. CASE ReadCommand
    <3> DEFINE names == DesignCommands \cup (OtherCommands \ {"slang.setBuildFile", "slang.addDefine",
                                                              "slang.setTopLevel"})
    <3>1. advertised # {} /\ \E c \in names :
            reply' = CASE c \notin handlers.commands -> "unknown"
                       [] c \in handlers.commands /\ c \in DesignCommands /\ ~ srv.driver.comp
                          -> "empty"
                       [] OTHER -> "result"
      BY <2>5 DEF ReadCommand
    <3>2. names \subseteq handlers.commands
      BY <3>1, InvFollowing, RegisteredServes
    <3> HIDE DEF names
    <3> QED BY <3>1, <3>2
  <2> QED BY <2>1, <2>2, <2>3, <2>4, <2>5
<1>5. TypeOK' /\ Handshake'
  BY <1>1, <1>2 DEF SessionInv, TypeOK, Handshake, env
<1>6. ConfigCurrent' /\ IndexHears'
  BY <1>1 DEF SessionInv, ConfigCurrent, IndexHears, VisibleFiles, env
<1>7. advertised' # {} => Following(srv')
  BY <1>1, InvFollowing
<1> QED BY <1>1, <1>4, <1>5, <1>6, <1>7, StepInv DEF env

\* initialize: a configuration that cannot be read leaves only the registrations.
LEMMA InitializeInv ==
  ASSUME SessionInv, Initialize
  PROVE  SessionInv'
<1> DEFINE fs == VisibleFiles(files)
           throws == FromFilesThrows(fs)
           c == fromFiles(fs)
           s == loadConfig(srv, c, TRUE, FALSE)
<1>1. /\ advertised = {} /\ phase' = "running"
      /\ UNCHANGED <<events, watching, env>>
  BY DEF Initialize, SessionInv, Handshake
<1>2. handlers' = Registered
  BY RegisteredServes DEF Initialize, SessionInv, Handshake
<1>3. reply' \notin {"unanswered", "unknown"}
  BY RegisteredServes DEF Initialize, SessionInv, Handshake, processRequest
<1>4. /\ srv' = IF throws THEN srv ELSE [s EXCEPT !.driver.resolve = client.resolve]
      /\ advertised' = IF throws THEN {} ELSE InitializeCapabilities
  BY DEF Initialize
<1>5. /\ SrvType(srv) /\ ~ srv.thrown /\ src \in [Src -> Nat] /\ client.resolve \in BOOLEAN
      /\ \A n \in ConfFile : IsConfText(files[n])
      /\ events = {} /\ ~ watching
  BY <1>1 DEF SessionInv, TypeOK, Handshake
<1>6. CASE throws
  <2>1. srv' = srv /\ advertised' = {}
    BY <1>4, <1>6
  <2>2. TypeOK' /\ Handshake'
    BY <1>1, <1>2, <1>5, <2>1 DEF SessionInv, TypeOK, Handshake, env
  <2>3. ConfigCurrent' /\ IndexHears'
    BY <2>1 DEF ConfigCurrent, IndexHears
  <2> QED BY <1>1, <1>3, <2>1, <2>2, <2>3, StepInv DEF env
<1>7. CASE ~ throws
  <2>1. MergedAsDocumented(c, fs) /\ c.flagsByFile \in Seq(FlagSource)
        /\ c.fields["build"].scalar \in BuildFile \cup {Unset}
    BY <1>5, VisibleText, FromFilesMerges
  <2> HIDE DEF c
  <2>2. Loaded(srv, s, c, FALSE)
    BY <1>5, <2>1, LoadConfigFacts
  <2> DEFINE d == [s.driver EXCEPT !.resolve = client.resolve]
  <2>3. srv' = [s EXCEPT !.driver = d] /\ advertised' = InitializeCapabilities
    BY <1>4, <1>7
  <2> HIDE DEF s
  <2>4. /\ d \in Driver /\ d.build = s.driver.build /\ d.flags = s.driver.flags
        /\ d.resolve = client.resolve
    BY <1>5, <2>2 DEF Loaded, Driver
  <2> HIDE DEF d
  <2>5. /\ SrvType(srv') /\ srv'.config = c /\ srv'.buildfile = s.buildfile /\ srv'.index = s.index
        /\ srv'.shown = s.shown /\ srv'.cut = s.cut /\ srv'.thrown = s.thrown /\ srv'.driver = d
    BY <2>2, <2>3, <2>4 DEF Loaded, SrvType
  <2>6. Following(srv')
    BY <2>2, <2>4, <2>5 DEF Following, Kept, Loaded
  <2>7. TypeOK'
    BY <1>1, <2>5 DEF SessionInv, TypeOK, env
  <2>8. Handshake'
    <3>1. InitializeCapabilities # {}
      BY DEF InitializeCapabilities
    <3> QED BY <1>1, <1>2, <2>3, <3>1 DEF Handshake
  <2>9. ConfigCurrent'
    <3>1. VisibleFiles(files)' = fs
      BY <1>1 DEF VisibleFiles, env
    <3> QED BY <2>1, <2>5, <3>1 DEF ConfigCurrent
  <2>10. IndexHears'
    <3>1. client.folder => srv'.index = src
      BY <2>2, <2>5 DEF Loaded
    <3> QED BY <1>1, <3>1 DEF IndexHears, env
  <2> QED BY <1>1, <1>3, <2>6, <2>7, <2>8, <2>9, <2>10, StepInv DEF env
<1> QED BY <1>6, <1>7

\* Steps of an initialized server that change no file and neither the configuration
\* nor the index.
LEMMA SwapInv ==
  ASSUME SessionInv, advertised # {},
         UNCHANGED <<phase, handlers, advertised, events, missed, env>>,
         watching' \in BOOLEAN,
         reply' \notin {"unanswered", "unknown"},
         Following(srv'), srv'.config = srv.config, srv'.index = srv.index
  PROVE  SessionInv'
<1>1. TypeOK' /\ Handshake'
  BY DEF SessionInv, TypeOK, Handshake, Following, Kept, env
<1>2. ConfigCurrent' /\ IndexHears'
  BY DEF SessionInv, ConfigCurrent, IndexHears, VisibleFiles, env
<1> QED BY <1>1, <1>2, StepInv DEF env

\* initialized.
LEMMA InitializedInv ==
  ASSUME SessionInv, Initialized
  PROVE  SessionInv'
<1>1. /\ advertised # {} /\ srv' = [srv EXCEPT !.shown = srv.config, !.cut = FALSE]
      /\ watching' = client.folder
      /\ UNCHANGED <<phase, handlers, advertised, reply, events, missed, env>>
  BY DEF Initialized
<1>2. Following(srv) /\ client.folder \in BOOLEAN /\ reply \notin {"unanswered", "unknown"}
  BY <1>1, InvFollowing DEF SessionInv, TypeOK, OfferedIsServed
<1>3. /\ SrvType(srv') /\ srv'.config = srv.config /\ srv'.buildfile = srv.buildfile
      /\ srv'.driver = srv.driver /\ srv'.index = srv.index /\ srv'.shown = srv.config
      /\ srv'.thrown = srv.thrown
  BY <1>1, <1>2 DEF Following, Kept, SrvType
<1>4. Following(srv')
  BY <1>2, <1>3 DEF Following, Kept
<1> QED BY <1>1, <1>2, <1>3, <1>4, SwapInv

\* Replacing the driver of an initialized server keeps what was negotiated.
LEMMA SwapFollows ==
  ASSUME NEW s, Kept(s), NEW r, NEW b, NEW throws \in BOOLEAN, Swapped(s, r, b, throws)
  PROVE  Following(r)
<1> QED BY DEF Following, Kept, Swapped

\* Commands start with no exception on record.
LEMMA Afresh ==
  ASSUME NEW s, Kept(s), NEW q, q = [s EXCEPT !.thrown = FALSE]
  PROVE  /\ Kept(q) /\ ~ q.thrown /\ q.config = s.config /\ q.index = s.index
         /\ q.driver = s.driver /\ q.buildfile = s.buildfile
<1>1. /\ SrvType(q) /\ ~ q.thrown /\ q.config = s.config /\ q.index = s.index
      /\ q.driver = s.driver /\ q.buildfile = s.buildfile /\ q.shown = s.shown /\ q.cut = s.cut
  BY DEF Kept, SrvType
<1> QED BY <1>1 DEF Kept

\* setTopLevel.
LEMMA SetTopLevelInv ==
  ASSUME SessionInv, SetTopLevel
  PROVE  SessionInv'
<1> DEFINE q == [srv EXCEPT !.thrown = FALSE]
<1>1. /\ advertised # {} /\ UNCHANGED <<phase, handlers, advertised, events, watching, missed, env>>
      /\ reply' \in {"error", "result"}
      /\ srv' \in {setExplore(q, 1 \in bad) : bad \in BadCreations}
                   \cup {srv, [srv EXCEPT !.driver.comp = TRUE]}
  BY DEF SetTopLevel
<1>2. Following(srv) /\ watching \in BOOLEAN
  BY <1>1, InvFollowing DEF SessionInv, TypeOK
<1>3. Kept(q) /\ ~ q.thrown /\ q.config = srv.config /\ q.index = srv.index
  BY <1>2, Afresh DEF Following
<1> HIDE DEF q
<1>4. Following(srv') /\ srv'.config = srv.config /\ srv'.index = srv.index
  <2>1. CASE \E bad \in BadCreations : srv' = setExplore(q, 1 \in bad)
    <3>0. PICK bad : srv' = setExplore(q, 1 \in bad)
      BY <2>1
    <3> DEFINE throws == 1 \in bad
    <3>1. throws \in BOOLEAN /\ srv' = setExplore(q, throws)
      BY <3>0
    <3> HIDE DEF throws
    <3>2. Swapped(q, srv', None, throws)
      BY <1>3, <3>1, SetExploreFacts DEF Kept
    <3>3. Following(srv')
      BY <1>3, <3>1, <3>2, SwapFollows
    <3> QED BY <1>3, <3>2, <3>3 DEF Swapped
  <2>2. CASE srv' = srv
    BY <1>2, <2>2
  <2>3. CASE srv' = [srv EXCEPT !.driver.comp = TRUE]
    <3> DEFINE d == [srv.driver EXCEPT !.comp = TRUE]
    <3>1. srv' = [srv EXCEPT !.driver = d]
      BY <2>3
    <3>2. /\ d \in Driver /\ d.build = srv.driver.build /\ d.flags = srv.driver.flags
          /\ d.resolve = srv.driver.resolve
      BY <1>2 DEF Following, Kept, Driver
    <3> HIDE DEF d
    <3>3. /\ SrvType(srv') /\ srv'.config = srv.config /\ srv'.buildfile = srv.buildfile
          /\ srv'.driver = d /\ srv'.index = srv.index /\ srv'.shown = srv.shown
          /\ srv'.thrown = srv.thrown /\ srv'.cut = srv.cut
      BY <1>2, <3>1, <3>2 DEF Following, Kept, SrvType
    <3> QED BY <1>2, <3>2, <3>3 DEF Following, Kept
  <2> QED BY <1>1, <2>1, <2>2, <2>3
<1> QED BY <1>1, <1>2, <1>4, SwapInv

\* setBuildFile.
LEMMA SetBuildFileInv ==
  ASSUME SessionInv, SetBuildFile
  PROVE  SessionInv'
<1> DEFINE q == [srv EXCEPT !.thrown = FALSE]
<1>1. /\ advertised # {} /\ UNCHANGED <<phase, handlers, advertised, events, watching, missed, env>>
      /\ reply' \in {"error", "result"}
      /\ \E b \in BuildFile, bad \in BadCreations : srv' = setBuildFile(q, b, 1 \in bad)
  BY DEF SetBuildFile
<1>2. Following(srv) /\ watching \in BOOLEAN
  BY <1>1, InvFollowing DEF SessionInv, TypeOK
<1>3. Kept(q) /\ ~ q.thrown /\ q.config = srv.config /\ q.index = srv.index
  BY <1>2, Afresh DEF Following
<1> HIDE DEF q
<1>0. PICK b \in BuildFile, bad \in BadCreations : srv' = setBuildFile(q, b, 1 \in bad)
  BY <1>1
<1> DEFINE throws == 1 \in bad
<1>4. throws \in BOOLEAN /\ srv' = setBuildFile(q, b, throws)
  BY <1>0
<1> HIDE DEF throws
<1>5. Swapped(q, srv', b, throws)
  BY <1>3, <1>4, SetBuildFileFacts DEF Kept
<1>6. Following(srv')
  BY <1>3, <1>4, <1>5, SwapFollows
<1> QED BY <1>1, <1>2, <1>3, <1>5, <1>6, SwapInv DEF Swapped

\* Loading the configuration again and putting the build file back. The index is
\* crawled unless the first creation throws, whatever the second does.
LEMMA ReloadFacts ==
  ASSUME NEW s, Kept(s), NEW fs, \A n \in ConfFile : IsConfText(fs[n]), src \in [Src -> Nat],
         NEW bad
  PROVE  /\ Following(reload(s, fs, bad))
         /\ reload(s, fs, bad).config = fromFiles(VisibleFiles(fs))
         /\ 1 \in bad => reload(s, fs, bad).index = s.index
         /\ 1 \notin bad /\ client.folder => reload(s, fs, bad).index = src
<1> DEFINE c == fromFiles(VisibleFiles(fs))
           q == [s EXCEPT !.thrown = FALSE]
           one == 1 \in bad
           two == 2 \in bad
           a == loadConfig(q, c, TRUE, one)
           r == reload(s, fs, bad)
<1>1. r = IF a.thrown \/ s.buildfile = None THEN a ELSE setBuildFile(a, s.buildfile, two)
  BY DEF reload
<1>2. /\ Kept(q) /\ ~ q.thrown /\ q.index = s.index /\ q.driver = s.driver
  BY Afresh
<1>3. c.flagsByFile \in Seq(FlagSource) /\ c.fields["build"].scalar \in BuildFile \cup {Unset}
  BY VisibleText, FromFilesMerges
<1>4. one \in BOOLEAN /\ two \in BOOLEAN /\ (one <=> 1 \in bad)
  OBVIOUS
<1> HIDE DEF c, q, r, one, two
<1>5. Loaded(q, a, c, one)
  BY <1>2, <1>3, <1>4, LoadConfigFacts DEF Kept
<1> HIDE DEF a
<1>6. Following(a)
  BY <1>2, <1>5 DEF Following, Kept, Loaded
<1>7. CASE a.thrown \/ s.buildfile = None
  BY <1>1, <1>2, <1>4, <1>5, <1>6, <1>7 DEF Loaded, r, c
<1>8. CASE ~ a.thrown /\ s.buildfile # None
  <2>1. s.buildfile \in BuildFile \cup {None} /\ r = setBuildFile(a, s.buildfile, two)
    BY <1>1, <1>8 DEF Kept, SrvType
  <2>2. Swapped(a, r, s.buildfile, two)
    BY <1>4, <1>6, <1>8, <2>1, SetBuildFileFacts DEF Following, Kept
  <2>3. Following(r)
    BY <1>4, <1>6, <2>2, SwapFollows DEF Following
  <2> QED BY <1>2, <1>4, <1>5, <1>8, <2>2, <2>3 DEF Loaded, Swapped, r, c
<1> QED BY <1>7, <1>8

\* A step that reloads leaves nothing of its batch unheard.
LEMMA ReloadInv ==
  ASSUME SessionInv, advertised # {}, NEW bad, NEW batch,
         DOMAIN files' = ConfFile, \A n \in ConfFile : IsConfText(files'[n]),
         srv' = reload(srv, files', bad), missed' = MissedAfter(batch, bad),
         events \ batch \subseteq events', events' \subseteq Path,
         reply' \notin {"unanswered", "unknown"},
         UNCHANGED <<phase, handlers, advertised, watching, client, src>>
  PROVE  SessionInv'
<1>1. Kept(srv) /\ src \in [Src -> Nat]
  BY InvFollowing DEF Following, SessionInv, TypeOK
<1> DEFINE v == VisibleFiles(files')
<1>2. /\ Following(srv') /\ srv'.config = fromFiles(v)
      /\ 1 \in bad => srv'.index = srv.index
      /\ 1 \notin bad /\ client.folder => srv'.index = src
  BY <1>1, ReloadFacts
<1>3. MergedAsDocumented(fromFiles(v), v)
  BY VisibleText, FromFilesMerges
<1>4. v = VisibleFiles(files)'
  BY DEF VisibleFiles
<1> HIDE DEF v
<1>5. TypeOK'
  BY <1>2 DEF SessionInv, TypeOK, Following, Kept
<1>6. Handshake'
  BY DEF SessionInv, Handshake
<1>7. ConfigCurrent'
  BY <1>2, <1>3, <1>4 DEF ConfigCurrent
<1>8. IndexHears'
  <2>1. CASE 1 \in bad
    <3>1. missed' = (missed \cup (batch \cap Src)) \ ConfFile
      BY <2>1 DEF MissedAfter
    <3>2. Src \cap ConfFile = {}
      BY SessionAssumption
    <3>3. Src \ (events' \cup missed') \subseteq Src \ (events \cup missed)
      BY <3>1, <3>2
    <3> QED BY <1>2, <2>1, <3>3 DEF SessionInv, IndexHears
  <2>2. CASE 1 \notin bad
    BY <1>2, <2>2 DEF IndexHears
  <2> QED BY <2>1, <2>2
<1> QED BY <1>2, <1>5, <1>6, <1>7, <1>8, StepInv

\* The file addDefine writes is a configuration file again.
LEMMA DefineText ==
  ASSUME NEW o, o = << >> \/ (IsConfText(o) /\ o \notin {Absent, Malformed}),
         NEW flags \in Seq(Word)
  PROVE  IsConfText([k \in DOMAIN o \cup {"flags"} |-> IF k = "flags" THEN [scalar |-> flags] ELSE o[k]])
<1> DEFINE v == [scalar |-> flags]
           n == [k \in DOMAIN o \cup {"flags"} |-> IF k = "flags" THEN v ELSE o[k]]
<1>1. ~ IsArray(v) /\ v.scalar \in Seq(Word)
  BY DEF IsArray
<1> HIDE DEF v
<1>2. \A k \in DOMAIN o : /\ IsArray(o[k]) => o[k].array \in Seq(Word)
                          /\ k = "build" /\ ~ IsArray(o[k]) => o[k].scalar \in BuildFile \cup {Unset}
  BY DEF IsConfText, IsText
<1>3. DOMAIN n = DOMAIN o \cup {"flags"} /\ n["flags"] = v
      /\ \A k \in DOMAIN o : k # "flags" => n[k] = o[k]
  OBVIOUS
<1> HIDE DEF n
<1>4. IsText(n)
  BY <1>1, <1>2, <1>3 DEF IsText
<1>5. "build" \in DOMAIN n /\ ~ IsArray(n["build"]) => n["build"].scalar \in BuildFile \cup {Unset}
  BY <1>2, <1>3
<1>6. IsConfText(n)
  BY <1>4, <1>5 DEF IsConfText
<1> QED BY <1>6 DEF n, v

\* So are its flags, whatever was there before.
LEMMA Extended ==
  ASSUME NEW old, NEW none, old \in Seq(Word) \/ none
  PROVE  (IF none THEN <<>> ELSE old) \o <<"-DM">> \in Seq(Word)
<1> DEFINE first == IF none THEN <<>> ELSE old
<1>1. <<>> \in Seq(Word) /\ <<"-DM">> \in Seq(Word)
  BY SessionAssumption
<1>2. first \in Seq(Word)
  BY <1>1
<1> HIDE DEF first
<1>3. first \o <<"-DM">> \in Seq(Word)
  BY <1>1, <1>2, ConcatProperties
<1> QED BY <1>3 DEF first

\* addDefine.
LEMMA AddDefineInv ==
  ASSUME SessionInv, AddDefine
  PROVE  SessionInv'
<1> DEFINE o     == LocalObject
           old   == Field(o, "flags")
           flags == (IF IsArray(old) \/ old.scalar = Unset THEN <<>> ELSE old.scalar) \o <<"-DM">>
           n     == [k \in DOMAIN o \cup {"flags"} |-> IF k = "flags" THEN [scalar |-> flags] ELSE o[k]]
           fs    == [files EXCEPT !["local"] = n]
           told  == Reported("local", files["local"], fs["local"])
<1>1. /\ advertised # {} /\ files' = fs
      /\ events' = IF told THEN events \cup {"local"} ELSE events
      /\ UNCHANGED <<phase, handlers, advertised, watching, client, src>>
      /\ \/ /\ reply' = "error" /\ srv' = srv
            /\ missed' = IF told THEN missed ELSE missed \cup {"local"}
         \/ \E bad \in BadCreations : /\ srv' = reload(srv, fs, bad) /\ missed' = MissedAfter({}, bad)
                                      /\ reply' \in {"error", "result"}
  BY DEF AddDefine
<1>2. DOMAIN files = ConfFile /\ (\A k \in ConfFile : IsConfText(files[k])) /\ events \subseteq Path
      /\ "local" \in ConfFile
  BY DEF SessionInv, TypeOK, ConfFile
<1>3. o = << >> \/ (IsConfText(o) /\ o \notin {Absent, Malformed})
  BY <1>2 DEF LocalObject
<1> HIDE DEF o
<1>4. flags \in Seq(Word)
  <2>1. IsArray(old) \/ old.scalar = Unset \/ old.scalar \in Seq(Word)
    <3>1. CASE "flags" \in DOMAIN o
      <4>1. old = o["flags"]
        BY <3>1 DEF Field
      <4>2. o # << >>
        BY <3>1
      <4> HIDE DEF old
      <4> QED BY <1>3, <3>1, <4>1, <4>2 DEF IsConfText, IsText
    <3>2. CASE "flags" \notin DOMAIN o
      BY <3>2 DEF Field
    <3> QED BY <3>1, <3>2
  <2> HIDE DEF old
  <2> QED BY <2>1, Extended
<1> HIDE DEF flags
<1>5. IsConfText(n)
  BY <1>3, <1>4, DefineText
<1> HIDE DEF n
<1>6. DOMAIN fs = ConfFile /\ \A k \in ConfFile : IsConfText(fs[k])
  BY <1>2, <1>5
<1> HIDE DEF fs, told
<1>7. events \subseteq events' /\ events' \subseteq Path /\ "local" \in Path
  BY <1>1, <1>2 DEF Path
<1>8. CASE reply' = "error" /\ srv' = srv /\ missed' = IF told THEN missed ELSE missed \cup {"local"}
  <2>1. TypeOK' /\ Handshake'
    BY <1>1, <1>6, <1>7, <1>8 DEF SessionInv, TypeOK, Handshake
  <2>2. "local" \in (events' \cup missed') /\ missed \subseteq missed'
    BY <1>1, <1>8
  <2>3. ConfigCurrent'
    BY <1>2, <2>2 DEF ConfigCurrent
  <2>4. IndexHears'
    BY <1>1, <1>7, <1>8, <2>2 DEF SessionInv, IndexHears
  <2>5. Following(srv')
    BY <1>1, <1>8, InvFollowing
  <2> QED BY <1>1, <1>8, <2>1, <2>3, <2>4, <2>5, StepInv
<1>9. CASE \E bad \in BadCreations : /\ srv' = reload(srv, fs, bad) /\ missed' = MissedAfter({}, bad)
                                     /\ reply' \in {"error", "result"}
  <2>1. PICK bad : /\ srv' = reload(srv, fs, bad) /\ missed' = MissedAfter({}, bad)
                   /\ reply' \in {"error", "result"}
    BY <1>9
  <2>2. reply' \notin {"unanswered", "unknown"} /\ events \ {} \subseteq events'
    BY <1>7, <2>1
  <2> QED BY <1>1, <1>6, <1>7, <2>1, <2>2, ReloadInv
<1> QED BY <1>1, <1>8, <1>9

\* File events come only after initialize was answered.
LEMMA ToldAdvertised ==
  ASSUME SessionInv, NEW batch \in SUBSET events, batch # {}
  PROVE  advertised # {}
BY DEF SessionInv, Handshake

\* A batch that reloads.
LEMMA WatchedReloadInv ==
  ASSUME SessionInv, WatchedReload
  PROVE  SessionInv'
<1>1. PICK batch \in SUBSET events :
        /\ batch # {} /\ needsReload(batch) /\ events' = events \ batch
        /\ \/ missed' = missed \cup (batch \ BuildFile) /\ srv' = srv
           \/ \E bad \in BadCreations : /\ srv' = reload(srv, files, bad)
                                        /\ missed' = MissedAfter(batch, bad)
        /\ UNCHANGED <<phase, handlers, advertised, reply, watching, sent, env>>
  BY DEF WatchedReload
<1>2. /\ advertised # {} /\ events \subseteq Path /\ files' = files /\ client' = client /\ src' = src
      /\ DOMAIN files = ConfFile /\ (\A k \in ConfFile : IsConfText(files[k]))
      /\ reply \notin {"unanswered", "unknown"}
  BY <1>1, ToldAdvertised DEF SessionInv, TypeOK, OfferedIsServed, env
<1>3. CASE missed' = missed \cup (batch \ BuildFile) /\ srv' = srv
  <2>1. TypeOK' /\ Handshake'
    BY <1>1, <1>2, <1>3 DEF SessionInv, TypeOK, Handshake
  <2>2. /\ (events \cup missed) \cap ConfFile \subseteq (events' \cup missed') \cap ConfFile
        /\ Src \ (events' \cup missed') \subseteq Src \ (events \cup missed)
    <3>1. BuildFile \cap ConfFile = {} /\ Src \cap BuildFile = {}
      BY SessionAssumption
    <3> QED BY <1>1, <1>3, <3>1
  <2>3. ConfigCurrent'
    <3>1. VisibleFiles(files)' = VisibleFiles(files)
      BY <1>2 DEF VisibleFiles
    <3> QED BY <1>1, <1>3, <2>2, <3>1 DEF SessionInv, ConfigCurrent
  <2>4. IndexHears'
    BY <1>1, <1>2, <1>3, <2>2 DEF SessionInv, IndexHears
  <2> QED BY <1>1, <1>2, <1>3, <2>1, <2>3, <2>4, InvFollowing, StepInv
<1>4. CASE \E bad \in BadCreations : /\ srv' = reload(srv, files, bad)
                                     /\ missed' = MissedAfter(batch, bad)
  <2>1. PICK bad : srv' = reload(srv, files, bad) /\ missed' = MissedAfter(batch, bad)
    BY <1>4
  <2>2. events \ batch \subseteq events' /\ events' \subseteq Path /\ reply' \notin {"unanswered", "unknown"}
    BY <1>1, <1>2
  <2> QED BY <1>1, <1>2, <2>1, <2>2, ReloadInv
<1> QED BY <1>1, <1>3, <1>4

\* The index reads some source files again.
LEMMA Reread ==
  ASSUME NEW s, Following(s), NEW i \in [Src -> Nat], NEW r, r = [s EXCEPT !.index = i]
  PROVE  Following(r) /\ r.config = s.config /\ r.index = i /\ SrvType(r)
<1>1. /\ SrvType(r) /\ r.config = s.config /\ r.index = i /\ r.driver = s.driver
      /\ r.buildfile = s.buildfile /\ r.shown = s.shown /\ r.cut = s.cut /\ r.thrown = s.thrown
  BY DEF Following, Kept, SrvType
<1> QED BY <1>1 DEF Following, Kept

\* A batch of source files.
LEMMA WatchedSourcesInv ==
  ASSUME SessionInv, WatchedSources
  PROVE  SessionInv'
<1> DEFINE i(batch) == [f \in Src |-> IF f \in batch THEN src[f] ELSE srv.index[f]]
<1>1. PICK batch \in SUBSET events :
        /\ batch # {} /\ ~ needsReload(batch) /\ events' = events \ batch
        /\ \/ srv' = [srv EXCEPT !.index = i(batch)] /\ missed' = missed \ batch
           \/ srv' = srv /\ missed' = missed \cup (batch \cap Src)
        /\ UNCHANGED <<phase, handlers, advertised, reply, watching, sent, env>>
  BY DEF WatchedSources
<1> DEFINE j == i(batch)
<1>2. /\ advertised # {} /\ events \subseteq Path /\ files' = files /\ client' = client /\ src' = src
      /\ reply \notin {"unanswered", "unknown"} /\ src \in [Src -> Nat] /\ srv.index \in [Src -> Nat]
  BY <1>1, ToldAdvertised DEF SessionInv, TypeOK, SrvType, OfferedIsServed, env
<1>3. Following(srv)
  BY <1>2, InvFollowing
<1>4. batch \cap ConfFile = {}
  BY <1>1 DEF needsReload
<1>5. j \in [Src -> Nat] /\ \A f \in Src : j[f] = IF f \in batch THEN src[f] ELSE srv.index[f]
  BY <1>2
<1>6. srv' = srv \/ srv' = [srv EXCEPT !.index = j]
  BY <1>1
<1> HIDE DEF j
<1>7. Following(srv') /\ SrvType(srv') /\ srv'.config = srv.config
  BY <1>3, <1>5, <1>6, Reread DEF Following, Kept
<1>8. TypeOK' /\ Handshake'
  BY <1>1, <1>2, <1>7 DEF SessionInv, TypeOK, Handshake
<1>9. (events \cup missed) \cap ConfFile \subseteq (events' \cup missed') \cap ConfFile
  BY <1>1, <1>4
<1>10. ConfigCurrent'
  <2>1. VisibleFiles(files)' = VisibleFiles(files)
    BY <1>2 DEF VisibleFiles
  <2> QED BY <1>1, <1>7, <1>9, <2>1 DEF SessionInv, ConfigCurrent
<1>11. IndexHears'
  <2>1. CASE srv' = srv /\ missed' = missed \cup (batch \cap Src)
    <3>1. Src \ (events' \cup missed') \subseteq Src \ (events \cup missed)
      BY <1>1, <2>1
    <3> QED BY <1>1, <1>2, <2>1, <3>1 DEF SessionInv, IndexHears
  <2>2. CASE srv' = [srv EXCEPT !.index = j] /\ missed' = missed \ batch
    <3>1. srv'.index = j
      BY <1>3, <1>5, <2>2, Reread
    <3>2. \A f \in Src \ (events' \cup missed') : f \in batch \/ f \in Src \ (events \cup missed)
      BY <1>1, <2>2
    <3> QED BY <1>1, <1>2, <1>5, <3>1, <3>2 DEF SessionInv, IndexHears
  <2> QED BY <1>1, <2>1, <2>2 DEF j
<1> QED BY <1>1, <1>2, <1>7, <1>8, <1>10, <1>11, StepInv

\* The client saves a document.
LEMMA DidSaveInv ==
  ASSUME SessionInv, DidSave
  PROVE  SessionInv'
<1>1. /\ advertised # {}
      /\ UNCHANGED <<phase, handlers, advertised, reply, client, files, watching, sent>>
  BY DEF DidSave
<1>2. PICK f \in Src :
        /\ src' = [src EXCEPT ![f] = @ + 1]
        /\ \/ srv' = [srv EXCEPT !.index[f] = src'[f]] /\ missed' = missed \ {f}
           \/ srv' = srv /\ missed' = IF watching THEN missed ELSE missed \cup {f}
        /\ events' = IF watching THEN events \cup {f} ELSE events
  BY DEF DidSave
<1>3. /\ events \subseteq Path /\ reply \notin {"unanswered", "unknown"} /\ src \in [Src -> Nat]
      /\ srv.index \in [Src -> Nat] /\ watching \in BOOLEAN /\ f \in Path /\ f \notin ConfFile
  BY <1>2, SessionAssumption DEF SessionInv, TypeOK, SrvType, OfferedIsServed, Path
<1>4. Following(srv)
  BY <1>1, InvFollowing
<1> DEFINE j == [srv.index EXCEPT ![f] = src'[f]]
<1>5. /\ src' \in [Src -> Nat] /\ \A g \in Src : g # f => src'[g] = src[g]
  BY <1>2, <1>3
<1>6. j \in [Src -> Nat] /\ j[f] = src'[f] /\ \A g \in Src : g # f => j[g] = srv.index[g]
  BY <1>3, <1>5
<1>7. \/ srv' = [srv EXCEPT !.index = j] /\ missed' = missed \ {f}
      \/ srv' = srv /\ missed' = IF watching THEN missed ELSE missed \cup {f}
  BY <1>2
<1> HIDE DEF j
<1>8. Following(srv') /\ SrvType(srv') /\ srv'.config = srv.config
  BY <1>4, <1>6, <1>7, Reread DEF Following, Kept
<1>9. events' \subseteq Path /\ events \subseteq events'
  BY <1>2, <1>3
<1>10. TypeOK' /\ Handshake'
  BY <1>1, <1>5, <1>8, <1>9 DEF SessionInv, TypeOK, Handshake
<1>11. ConfigCurrent'
  <2>1. VisibleFiles(files)' = VisibleFiles(files)
    BY <1>1 DEF VisibleFiles
  <2>2. (events \cup missed) \cap ConfFile \subseteq (events' \cup missed') \cap ConfFile
    BY <1>3, <1>7, <1>9
  <2> QED BY <1>1, <1>8, <2>1, <2>2 DEF SessionInv, ConfigCurrent
<1>12. IndexHears'
  <2>1. CASE srv' = srv /\ missed' = IF watching THEN missed ELSE missed \cup {f}
    <3>1. \A g \in Src \ (events' \cup missed') : g # f /\ g \in Src \ (events \cup missed)
      BY <1>2, <1>3, <2>1
    <3> QED BY <1>1, <1>5, <2>1, <3>1 DEF SessionInv, IndexHears
  <2>2. CASE srv' = [srv EXCEPT !.index = j] /\ missed' = missed \ {f}
    <3>1. srv'.index = j
      BY <1>4, <1>6, <2>2, Reread
    <3>2. \A g \in Src \ (events' \cup missed') : g = f \/ g \in Src \ (events \cup missed)
      BY <1>9, <2>2
    <3> QED BY <1>1, <1>5, <1>6, <3>1, <3>2 DEF SessionInv, IndexHears
  <2> QED BY <1>7, <2>1, <2>2
<1> QED BY <1>1, <1>3, <1>8, <1>10, <1>11, <1>12, StepInv

\* A file changes under the server.
LEMMA ChangeFileInv ==
  ASSUME SessionInv, ChangeFile
  PROVE  SessionInv'
<1>1. UNCHANGED <<phase, handlers, advertised, reply, client, watching, srv, sent>>
  BY DEF ChangeFile
<1>2. PICK p \in Path :
        /\ \/ p \in ConfFile /\ UNCHANGED src
              /\ \E t \in ConfText[p] \ {files[p]} : files' = [files EXCEPT ![p] = t]
           \/ p \in Src /\ UNCHANGED files /\ src' = [src EXCEPT ![p] = @ + 1]
           \/ p \in BuildFile /\ UNCHANGED <<files, src>>
        /\ LET told == IF p \in ConfFile THEN Reported(p, files[p], files'[p]) ELSE watching
           IN  /\ events' = IF told THEN events \cup {p} ELSE events
               /\ missed' = IF told THEN missed ELSE missed \cup ({p} \ BuildFile)
  BY DEF ChangeFile
<1> DEFINE told == IF p \in ConfFile THEN Reported(p, files[p], files'[p]) ELSE watching
<1>3. /\ events' = IF told THEN events \cup {p} ELSE events
      /\ missed' = IF told THEN missed ELSE missed \cup ({p} \ BuildFile)
  BY <1>2
<1>4. told => watching
  BY DEF Reported
<1> HIDE DEF told
<1>5. /\ events \subseteq Path /\ reply \notin {"unanswered", "unknown"} /\ src \in [Src -> Nat]
      /\ DOMAIN files = ConfFile /\ \A k \in ConfFile : IsConfText(files[k])
  BY DEF SessionInv, TypeOK, OfferedIsServed
<1>6. /\ src' \in [Src -> Nat] /\ DOMAIN files' = ConfFile
      /\ \A k \in ConfFile : IsConfText(files'[k])
  <2>1. CASE p \in ConfFile /\ \E t \in ConfText[p] : files' = [files EXCEPT ![p] = t] /\ src' = src
    BY <1>5, <2>1, SessionAssumption
  <2>2. CASE p \in Src /\ files' = files /\ src' = [src EXCEPT ![p] = @ + 1]
    BY <1>5, <2>2
  <2>3. CASE files' = files /\ src' = src
    BY <1>5, <2>3
  <2> QED BY <1>2, <2>1, <2>2, <2>3
<1>7. /\ events' \subseteq Path /\ events \subseteq events' /\ missed \subseteq missed'
      /\ p \in events' \cup missed' \cup BuildFile
  BY <1>3, <1>5
<1>8. TypeOK'
  BY <1>1, <1>6, <1>7 DEF SessionInv, TypeOK
<1>9. Handshake'
  BY <1>1, <1>3, <1>4 DEF SessionInv, Handshake
<1>10. Src \cap ConfFile = {} /\ Src \cap BuildFile = {} /\ BuildFile \cap ConfFile = {}
  BY SessionAssumption
<1>11. ConfigCurrent'
  <2>1. CASE p \in ConfFile
    BY <1>7, <1>10, <2>1 DEF ConfigCurrent
  <2>2. CASE p \notin ConfFile
    <3>1. VisibleFiles(files)' = VisibleFiles(files)
      BY <1>1, <1>2, <2>2 DEF VisibleFiles
    <3> QED BY <1>1, <1>7, <3>1 DEF SessionInv, ConfigCurrent
  <2> QED BY <2>1, <2>2
<1>12. IndexHears'
  <2>1. \A f \in Src : f # p => src'[f] = src[f]
    BY <1>2, <1>5
  <2>2. p \in Src => p \in events' \cup missed'
    BY <1>7, <1>10
  <2>3. \A f \in Src \ (events' \cup missed') : f # p /\ f \in Src \ (events \cup missed)
    BY <1>7, <2>2
  <2> QED BY <1>1, <2>1, <2>3 DEF SessionInv, IndexHears
<1>13. advertised' # {} => Following(srv')
  BY <1>1, InvFollowing
<1> QED BY <1>1, <1>5, <1>8, <1>9, <1>11, <1>12, <1>13, StepInv

\* A stuttering step.
LEMMA StutterInv ==
  ASSUME SessionInv, UNCHANGED vars
  PROVE  SessionInv'
BY DEF SessionInv, TypeOK, Handshake, OfferedIsServed, NegotiatedKept, DriverFollowsConfig,
       ConfigCurrent, IndexHears, VisibleFiles, Offered, vars

LEMMA NextInv == SessionInv /\ [Next]_vars => SessionInv'
<1> SUFFICES ASSUME SessionInv, [Next]_vars PROVE SessionInv'
  OBVIOUS
<1>1. CASE BeforeInitialize \/ Query \/ ReadCommand \/ Shutdown \/ Exit
  BY <1>1, QuietInv
<1>2. CASE Initialize
  BY <1>2, InitializeInv
<1>3. CASE Initialized
  BY <1>3, InitializedInv
<1>4. CASE SetTopLevel
  BY <1>4, SetTopLevelInv
<1>5. CASE SetBuildFile
  BY <1>5, SetBuildFileInv
<1>6. CASE AddDefine
  BY <1>6, AddDefineInv
<1>7. CASE WatchedReload
  BY <1>7, WatchedReloadInv
<1>8. CASE WatchedSources
  BY <1>8, WatchedSourcesInv
<1>9. CASE DidSave
  BY <1>9, DidSaveInv
<1>10. CASE ChangeFile
  BY <1>10, ChangeFileInv
<1>11. CASE UNCHANGED vars
  BY <1>11, StutterInv
<1> QED BY <1>1, <1>2, <1>3, <1>4, <1>5, <1>6, <1>7, <1>8, <1>9, <1>10, <1>11 DEF Next

-----------------------------------------------------------------------------
\* The session's state is well formed, the handshake orders what the server may be
\* sent, and the five properties below hold together: each needs the others' state
\* (a reload reads the configuration, swaps the driver and crawls in one handler).
THEOREM SessionInvariant == Spec => []SessionInv
<1> QED BY InitInv, NextInv, PTL DEF Spec

\* Whatever the client sends, and whether or not initialize failed before: offered
\* methods have handlers and no request or command of a correct client is dropped.
THEOREM OffersServed == Spec => []OfferedIsServed
<1>1. SessionInv => OfferedIsServed
  BY DEF SessionInv
<1> QED BY <1>1, SessionInvariant, PTL

\* Every driver that replaces another resolves completions as the client asked for.
THEOREM OptionSurvivesDrivers == Spec => []NegotiatedKept
<1>1. SessionInv => NegotiatedKept
  BY DEF SessionInv
<1> QED BY <1>1, SessionInvariant, PTL

\* The driver was made for the selected build file and the loaded flags, and the
\* editor knows the loaded configuration, except after an exception in between.
THEOREM DriverIsConfigured == Spec => []DriverFollowsConfig
<1>1. SessionInv => DriverFollowsConfig
  BY DEF SessionInv
<1> QED BY <1>1, SessionInvariant, PTL

\* For any contents of the three files: once the reported changes are handled the
\* configuration is what the documentation says the files merge to.
THEOREM ConfigIsMerged == Spec => []ConfigCurrent
<1>1. SessionInv => ConfigCurrent
  BY DEF SessionInv
<1> QED BY <1>1, SessionInvariant, PTL

\* No report of a changed source file is lost, however batches mix source files,
\* configuration files and build files, unless the driver threw.
THEOREM ReportsReachIndex == Spec => []IndexHears
<1>1. SessionInv => IndexHears
  BY DEF SessionInv
<1> QED BY <1>1, SessionInvariant, PTL
=============================================================================

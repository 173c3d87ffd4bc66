----------------------------- MODULE ConfigFiles -----------------------------
(***************************************************************************)
(* Config::fromFiles: up to three files are layered into one configuration. *)
(* A file is Absent, Malformed (no JSON object) or an object, a function    *)
(* from field names to values. A value is an array, [array |-> sequence],   *)
(* or anything else, [scalar |-> value]. Flags are sequences of words.      *)
(***************************************************************************)
EXTENDS Naturals, Sequences

CONSTANTS
  Absent, Malformed, Unset,
  Word          \* the words of lists and flags

\* The fields of Config: the ones that hold lists, and the others.
ArrayFields  == {"index", "indexGlobs", "excludeDirs", "builds"}
ScalarFields == {"flags", "indexingThreads", "build", "buildPattern", "buildRelativePaths",
                 "wavesPattern", "wcpCommand", "hovers", "inlayHints"}

DefaultConfig ==
  [k \in ArrayFields \cup ScalarFields |->
     IF k \in ArrayFields THEN [array |-> <<>>] ELSE [scalar |-> Unset]]

IsArray(v) == "array" \in DOMAIN v

\* Reading a field of an object: a missing one is null.
Field(o, k) == IF k \in DOMAIN o THEN o[k] ELSE [scalar |-> Unset]

\* What a file can hold: lists are lists of words, and so are flags.
IsText(f) ==
  \/ f \in {Absent, Malformed}
  \/ \A k \in DOMAIN f :
       /\ IsArray(f[k]) => f[k].array \in Seq(Word)
       /\ k = "flags" /\ ~ IsArray(f[k]) => f[k].scalar \in Seq(Word)

\* The file exists, is an object and agrees with the schema. Fields the schema
\* does not know are accepted whatever they hold.
Readable(f) ==
  /\ f \notin {Absent, Malformed}
  /\ \A k \in DOMAIN f : /\ k \in ArrayFields  => IsArray(f[k])
                         /\ k \in ScalarFields => ~ IsArray(f[k])

\* layerFile calls value() on what is not an array: an array of an earlier file
\* is followed by something else.
LayerThrows(c, f) ==
  Readable(f) /\ \E k \in DOMAIN f : IsArray(Field(c, k)) /\ ~ IsArray(f[k])

layerFile(c, f) ==
  IF ~ Readable(f) THEN c
  ELSE [k \in DOMAIN c \cup DOMAIN f |->
          IF k \notin DOMAIN f THEN c[k]
          ELSE IF IsArray(Field(c, k)) /\ IsArray(f[k]) THEN [array |-> c[k].array \o f[k].array]
          ELSE f[k]]

Layered1(fs) == layerFile(DefaultConfig, fs.workspace)
Layered2(fs) == layerFile(Layered1(fs), fs.user)
Layered3(fs) == layerFile(Layered2(fs), fs.local)

FromFilesThrows(fs) ==
  \/ LayerThrows(DefaultConfig, fs.workspace)
  \/ LayerThrows(Layered1(fs), fs.user)
  \/ LayerThrows(Layered2(fs), fs.local)

HasField(f, k) == Readable(f) /\ k \in DOMAIN f

\* The default pattern is filled in when no file chose one and none lists builds.
BuildPattern(fs, c) ==
  IF c["builds"].array = <<>>
     /\ ~ \E n \in DOMAIN fs : HasField(fs[n], "buildPattern")
  THEN [scalar |-> "**/*.f"] ELSE c["buildPattern"]

extractFlags(f) == IF HasField(f, "flags") THEN f["flags"].scalar ELSE <<>>

\* Mutant: the flags are layered like any other scalar, user over workspace.
flagsByFileUserFirst(fs) ==
  LET From(n) == IF extractFlags(fs[n]) = <<>> THEN <<>>
                 ELSE <<[filePath |-> n, flags |-> extractFlags(fs[n])]>>
  IN  (IF From("user") # <<>> THEN From("user") ELSE From("workspace")) \o From("local")

\* The flags with the file each comes from: workspace before user, local on top.
flagsByFile(fs) ==
  LET From(n) == IF extractFlags(fs[n]) = <<>> THEN <<>>
                 ELSE <<[filePath |-> n, flags |-> extractFlags(fs[n])]>>
  IN  (IF From("workspace") # <<>> THEN From("workspace") ELSE From("user")) \o From("local")

mergedFlags(sources) ==
  LET Join[i \in 0..Len(sources)] == IF i = 0 THEN <<>> ELSE Join[i-1] \o sources[i].flags
  IN  Join[Len(sources)]

\* The configuration the server works with, and the sources of its flags.
fromFiles(fs) ==
  [fields |-> [Layered3(fs) EXCEPT !["buildPattern"] = BuildPattern(fs, Layered3(fs)),
                                   !["flags"] = [scalar |-> mergedFlags(flagsByFile(fs))]],
   flagsByFile |-> flagsByFile(fs)]

\* Config's own default globs stand in for an empty list.
getIndexGlobs(c) ==
  IF c.fields["indexGlobs"].array = <<>> THEN {"./.../*.sv*"}
  ELSE {c.fields["indexGlobs"].array[i] : i \in DOMAIN c.fields["indexGlobs"].array}

-----------------------------------------------------------------------------
\* What Config.h says of the result, field by field, for the files fs.
Order == <<"workspace", "user", "local">>

Contribution(f, k) == IF HasField(f, k) /\ IsArray(f[k]) THEN f[k].array ELSE <<>>

DocumentedFlags(fs) ==
  (IF extractFlags(fs.workspace) # <<>> THEN extractFlags(fs.workspace)
   ELSE extractFlags(fs.user)) \o extractFlags(fs.local)

\* "Array fields are appended across all files. Scalar fields are overwritten by
\* later files (local > user > workspace)", and flags have a rule of their own.
MergedAsDocumented(c, fs) ==
  /\ \A k \in ArrayFields :
       c.fields[k].array = Contribution(fs.workspace, k) \o Contribution(fs.user, k)
                           \o Contribution(fs.local, k)
  /\ \A k \in ScalarFields \ {"flags", "buildPattern"} :
       \/ \E i \in 1..3 : /\ HasField(fs[Order[i]], k) /\ c.fields[k] = fs[Order[i]][k]
                          /\ \A j \in i+1..3 : ~ HasField(fs[Order[j]], k)
       \/ /\ c.fields[k] = DefaultConfig[k]
          /\ \A i \in 1..3 : ~ HasField(fs[Order[i]], k)
  /\ c.fields["flags"].scalar = DocumentedFlags(fs)
=============================================================================

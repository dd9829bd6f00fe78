------------------------------ MODULE LabProofs ------------------------------
(***************************************************************************)
(* Theorems about what is computed offline and kept.  The data store, for  *)
(* any set of writers and uploads, any answers of the vendor and any length*)
(* of a manifest: what is served, cited and kept.  Research, for any runs, *)
(* grids and data: what counts as validated and which rows a sample is made*)
(* of.                                                                     *)
(***************************************************************************)
EXTENDS DataStore, Research, SequenceTheorems, FiniteSetTheorems, TLAPS

-----------------------------------------------------------------------------
(* The data store: its state. *)

BarPair == [1..2 -> Nat]
Content == [bars : BarPair, acts : Int]
Entry   == [content : Content, ok : BOOLEAN]
Job     == [key : Series \cup {"actions"}, content : Content, ok : BOOLEAN]

WriterState == [at : {"idle", "write", "save", "failed"}, todo : Seq(Job), list : Seq(Entry),
                update : BOOLEAN, alone : BOOLEAN]
ReaderState == [at : {"idle", "found", "read", "done", "error"}, key : Series, any : BOOLEAN,
                info : Seq(Entry), got : Content, cited : Seq(Entry), moved : BOOLEAN]
Versions    == Uploads \cup {0}
DeskState   == [file : Versions, archive : [0..MaxSeconds -> Versions], second : 0..MaxSeconds,
                up : Versions, at : {"idle", "archived"}, shared : BOOLEAN]

StoreTypeOK ==
    /\ manifest \in [Series -> Seq(Entry)]
    /\ writer \in [Writers -> WriterState]
    /\ reader \in ReaderState
    /\ met \in BOOLEAN /\ clean \in Seq(Entry)
    /\ desk \in DeskState

\* A writer that saves has a series to save, one that does not write has none.
ControlInv ==
    \A w \in Writers :
        /\ writer[w].at = "save" => writer[w].todo # << >> /\ writer[w].todo[1].key # "actions"
        /\ writer[w].at \in {"idle", "failed"} => writer[w].todo = << >>

\* As long as no two updates met every writer is alone, and one that is has
\* no other beside it and saves the manifest it still finds.
AloneInv ==
    /\ ~ met => \A w \in Writers : writer[w].alone
    /\ \A w \in Writers : Working(w) /\ writer[w].alone =>
          /\ ~ OthersWork(w)
          /\ writer[w].at = "save" => writer[w].list = manifest[writer[w].todo[1].key]

\* Whatever is recorded as valid is, also where it waits to be recorded.
Sound(e) == e.ok => ValidBars(e.content.bars)
SoundInv ==
    /\ \A k \in Series : \A i \in DOMAIN manifest[k] : Sound(manifest[k][i])
    /\ \A w \in Writers :
          /\ \A i \in DOMAIN writer[w].list : Sound(writer[w].list[i])
          /\ \A i \in DOMAIN writer[w].todo :
                writer[w].todo[i].key # "actions" => Sound(writer[w].todo[i])

\* The reader's snapshot is one that was recorded, and still the latest if no
\* writer saved the series since.
ReaderInv ==
    /\ reader.at \in {"found", "read", "done"} =>
          /\ Len(reader.info) = 1 /\ Sound(reader.info[1])
          /\ ~ reader.any => reader.info[1].ok
    /\ reader.at \in {"found", "read"} /\ ~ reader.moved => reader.info = Latest(reader.key, ~ reader.any)
    /\ reader.at \in {"read", "done"} => reader.got = reader.info[1].content
    /\ CitedIsRead

\* A derived series waiting to be written has its raw snapshot, or it is the
\* job before it.
HasRaw(m, bars) == \E i \in DOMAIN m["raw"] : m["raw"][i].ok /\ m["raw"][i].content.bars = bars
RawFirst(m, todo) ==
    \A i \in DOMAIN todo : todo[i].key \in {"split", "all", "synthetic"} =>
        \/ HasRaw(m, todo[i].content.bars)
        \/ todo[1].key = "raw" /\ todo[1].ok /\ todo[1].content.bars = todo[i].content.bars
OriginInv ==
    met \/ /\ \A k \in {"split", "all", "synthetic"} : \A i \in DOMAIN manifest[k] :
                 HasRaw(manifest, manifest[k][i].content.bars)
           /\ \A w \in Writers : RawFirst(manifest, writer[w].todo)

\* What an update that runs alone still has to write, and what it has written.
Owes(todo, k, bars) == \E i \in DOMAIN todo : todo[i].key = k /\ todo[i].content.bars = bars
Stands(m, k, bars) == m[k] # << >> /\ Last(m[k]).content.bars = bars
Halfway(m, todo) ==
    /\ \A i, j \in DOMAIN todo : todo[i].key = todo[j].key => i = j
    /\ \A i \in DOMAIN todo : todo[i].key = "raw" => i = 1
    /\ IF todo # << >> /\ todo[1].key = "raw"
       THEN todo[1].ok => \A k \in {"split", "all"} : Owes(todo, k, todo[1].content.bars)
       ELSE /\ m["raw"] # << >>
            /\ Last(m["raw"]).ok =>
                 \A k \in {"split", "all"} :
                    LET bars == Last(m["raw"]).content.bars
                    IN  \/ Owes(todo, k, bars)
                        \/ Stands(m, k, bars) /\ \A i \in DOMAIN todo : todo[i].key # k
UpdateInv ==
    /\ \A w \in Writers : writer[w].at \in {"write", "save"} /\ writer[w].alone /\ writer[w].update =>
          Halfway(manifest, writer[w].todo)
    /\ clean # << >> => (\A w \in Writers : ~ Working(w)) /\ UpdateIsComplete

\* Between the archive and the new file the directory has none.
DeskInv == desk.at = "archived" => desk.file = 0

StoreInv ==
    /\ StoreTypeOK /\ ControlInv /\ AloneInv /\ SoundInv /\ ReaderInv /\ OriginInv /\ UpdateInv /\ DeskInv

-----------------------------------------------------------------------------
(* Sequences and the latest snapshot. *)

\* A job is taken from the front, the others keep their order.
LEMMA TailOf ==
    ASSUME NEW S, NEW s \in Seq(S), s # << >>
    PROVE  /\ 1 \in DOMAIN s /\ Head(s) = s[1] /\ s[1] \in S
           /\ Tail(s) \in Seq(S) /\ DOMAIN Tail(s) = 1 .. Len(s) - 1
           /\ \A i \in 1 .. Len(s) - 1 : Tail(s)[i] = s[i + 1]
           /\ \A i \in DOMAIN Tail(s) : i + 1 \in DOMAIN s /\ Tail(s)[i] = s[i + 1]
           /\ \A i \in DOMAIN s \ {1} : i - 1 \in DOMAIN Tail(s) /\ Tail(s)[i - 1] = s[i]
<1>1. Len(s) \in Nat \ {0} /\ DOMAIN s = 1 .. Len(s)
  BY EmptySeq, LenProperties
<1>2. Tail(s) \in Seq(S) /\ Len(Tail(s)) = Len(s) - 1
      /\ \A i \in 1 .. Len(Tail(s)) : Tail(s)[i] = s[i + 1]
  BY HeadTailProperties
<1>3. DOMAIN Tail(s) = 1 .. Len(Tail(s))
  BY <1>2, LenProperties
<1>4. Head(s) = s[1] /\ s[1] \in S
  BY <1>1, ElementOfSeq
<1> QED
  BY <1>1, <1>2, <1>3, <1>4

LEMMA AppendOf ==
    ASSUME NEW S, NEW s \in Seq(S), NEW e \in S
    PROVE  /\ Append(s, e) \in Seq(S) /\ Append(s, e) # << >>
           /\ DOMAIN Append(s, e) = 1 .. Len(s) + 1 /\ Len(Append(s, e)) = Len(s) + 1
           /\ Last(Append(s, e)) = e
           /\ \A i \in DOMAIN s : i \in DOMAIN Append(s, e) /\ Append(s, e)[i] = s[i]
           /\ \A i \in DOMAIN Append(s, e) :
                 Append(s, e)[i] = e \/ (i \in DOMAIN s /\ Append(s, e)[i] = s[i])
<1>1. Len(s) \in Nat /\ DOMAIN s = 1 .. Len(s)
  BY LenProperties
<1>2. Append(s, e) \in Seq(S) /\ Append(s, e) # << >> /\ Len(Append(s, e)) = Len(s) + 1
      /\ (\A i \in 1 .. Len(s) : Append(s, e)[i] = s[i]) /\ Append(s, e)[Len(s) + 1] = e
  BY AppendProperties
<1>3. DOMAIN Append(s, e) = 1 .. Len(s) + 1
  BY <1>2, LenProperties
<1> QED
  BY <1>1, <1>2, <1>3 DEF Last

\* A set of numbers up to a bound has a largest one.
LEMMA LargestExists ==
    ASSUME NEW n \in Nat, NEW S \in SUBSET (1..n), S # {}
    PROVE  \E x \in S : \A y \in S : x >= y
<1> DEFINE Room == {n - x : x \in S}
<1>1. Room \subseteq Nat /\ Room # {}
  <2>1. \A x \in S : x \in Int /\ n - x \in Nat
    OBVIOUS
  <2>2. PICK x \in S : TRUE
    OBVIOUS
  <2> QED
    BY <2>1, <2>2
<1>2. PICK m \in Room : \A k \in Room : ~ (k < m)
  <2> HIDE DEF Room
  <2>1. \E m \in Room : \A k \in Room : << k, m >> \notin OpToRel(<, Nat)
    BY <1>1, WFMin, NatLessThanWellFounded
  <2>2. \A k, m \in Nat : << k, m >> \notin OpToRel(<, Nat) => ~ (k < m)
    BY DEF OpToRel
  <2> QED
    BY <1>1, <2>1, <2>2
<1>3. PICK x \in S : m = n - x
  OBVIOUS
<1>4. ASSUME NEW y \in S PROVE x >= y
  <2>1. n - y \in Room /\ n - y \in Nat /\ m \in Nat
    BY <1>1
  <2>2. ~ (n - y < m)
    BY <1>2, <2>1
  <2> QED
    BY <1>3, <2>1, <2>2
<1> QED
  BY <1>4

LEMMA MaxOf ==
    ASSUME NEW n \in Nat, NEW S \in SUBSET (1..n), S # {}
    PROVE  Max(S) \in S /\ \A y \in S : Max(S) >= y
BY LargestExists DEF Max

\* The latest snapshot is one of the manifest's and, when asked for, a valid one.
LEMMA LatestIsRecorded ==
    ASSUME NEW entries \in Seq(Entry), NEW valid \in BOOLEAN
    PROVE  /\ LatestOf(entries, valid) \in Seq(Entry)
           /\ LatestOf(entries, valid) # << >> =>
                \E i \in DOMAIN entries : /\ LatestOf(entries, valid) = << entries[i] >>
                                          /\ LatestOf(entries, valid)[1] = entries[i]
                                          /\ entries[i] \in Entry
                                          /\ entries[i].ok \/ ~ valid
<1> DEFINE good == {i \in 1 .. Len(entries) : entries[i].ok \/ ~ valid}
<1>1. Len(entries) \in Nat /\ DOMAIN entries = 1 .. Len(entries)
  BY LenProperties
<1>2. LatestOf(entries, valid) = IF good = {} THEN << >> ELSE << entries[Max(good)] >>
  BY <1>1 DEF LatestOf
<1>3. CASE good = {}
  BY <1>2, <1>3
<1>4. CASE good # {}
  <2>1. Max(good) \in good
    BY <1>1, <1>4, MaxOf
  <2>2. LatestOf(entries, valid) = << entries[Max(good)] >>
    BY <1>2, <1>4
  <2>3. entries[Max(good)] \in Entry
    BY <1>1, <2>1, ElementOfSeq
  <2>4. \A e \in Entry : << e >> \in Seq(Entry)
    OBVIOUS
  <2>5. \A e : << e >>[1] = e
    OBVIOUS
  <2>6. LatestOf(entries, valid)[1] = entries[Max(good)]
    BY <2>2, <2>5
  <2> QED
    BY <1>1, <2>1, <2>2, <2>3, <2>4, <2>6
<1> QED
  BY <1>3, <1>4

\* The last snapshot is the latest, unless it is not valid and has to be.
LEMMA LastIsLatest ==
    ASSUME NEW entries \in Seq(Entry), NEW valid \in BOOLEAN, entries # << >>,
           Last(entries).ok \/ ~ valid
    PROVE  LatestOf(entries, valid) = << Last(entries) >>
<1> DEFINE good == {i \in 1 .. Len(entries) : entries[i].ok \/ ~ valid}
<1>1. Len(entries) \in Nat \ {0}
  BY EmptySeq
<1>2. Len(entries) \in good
  BY <1>1 DEF Last
<1>3. Max(good) \in good /\ Max(good) >= Len(entries)
  BY <1>1, <1>2, MaxOf
<1>4. Max(good) = Len(entries)
  BY <1>1, <1>3
<1>5. LatestOf(entries, valid) = << entries[Max(good)] >>
  BY <1>1, <1>2, LenProperties DEF LatestOf
<1> QED
  BY <1>1, <1>4, <1>5 DEF Last

-----------------------------------------------------------------------------
(* What an update writes. *)

\* Raw is first; the actions and, when the bars are valid, both adjusted
\* series follow, each once and with the same bars.
LEMMA WritesAre ==
    ASSUME NEW bars \in BarPair, NEW acts \in Int, NEW passes \in [DOMAIN Modes -> BOOLEAN]
    PROVE  LET todo == WritesOf(bars, acts, passes) IN
           /\ todo \in Seq(Job) /\ todo # << >>
           /\ todo[1] = [key |-> "raw", content |-> Raw(bars), ok |-> ValidBars(bars)]
           /\ \A i \in DOMAIN todo :
                 /\ todo[i].key = "raw" => i = 1
                 /\ todo[i].key # "synthetic" /\ todo[i].content.bars = bars
                 /\ todo[i].key \in {"split", "all"} => ValidBars(bars)
           /\ \A i, j \in DOMAIN todo : todo[i].key = todo[j].key => i = j
           /\ ValidBars(bars) => \A k \in {"split", "all"} : Owes(todo, k, bars)
<1> DEFINE raw     == [key |-> "raw", content |-> Raw(bars), ok |-> ValidBars(bars)]
           first   == << raw >>
           said    == [key |-> "actions", content |-> [bars |-> bars, acts |-> acts], ok |-> TRUE]
           second  == IF acts = -1 THEN << >> ELSE << said >>
           of(i)   == [key |-> Modes[i], content |-> [bars |-> bars, acts |-> IF acts = -1 THEN 0 ELSE acts],
                       ok |-> passes[i]]
           adjusted == [i \in DOMAIN Modes |->
                         [key |-> Modes[i],
                          content |-> [bars |-> bars, acts |-> IF acts = -1 THEN 0 ELSE acts],
                          ok |-> passes[i]]]
           third   == IF ~ ValidBars(bars) THEN << >> ELSE adjusted
           todo    == WritesOf(bars, acts, passes)
<1>1. todo = first \o second \o third
  BY DEF WritesOf
<1>2. ValidBars(bars) \in BOOLEAN
  BY DEF ValidBars
<1>0. DOMAIN Modes = 1..2 /\ Modes[1] = "split" /\ Modes[2] = "all"
  BY DEF Modes
<1>3. raw \in Job /\ said \in Job /\ of(1) \in Job /\ of(2) \in Job
  <2>1. passes[1] \in BOOLEAN /\ passes[2] \in BOOLEAN
    BY <1>0
  <2> QED
    BY <2>1, <1>0, <1>2 DEF Job, Content, Raw, Series
<1> HIDE DEF raw, said
<1>4. first \in Seq(Job) /\ Len(first) = 1 /\ first[1] = raw
  BY <1>3
<1>5. second \in Seq(Job) /\ Len(second) \in {0, 1}
      /\ \A i \in 1 .. Len(second) : second[i] = said
  <2>1. << said >> \in Seq(Job) /\ Len(<< said >>) = 1 /\ << said >>[1] = said
    BY <1>3
  <2>2. << >> \in Seq(Job) /\ Len(<< >>) = 0
    OBVIOUS
  <2> QED
    BY <2>1, <2>2
<1>7. adjusted \in Seq(Job) /\ Len(adjusted) = 2 /\ adjusted[1] = of(1) /\ adjusted[2] = of(2)
  <2>1. adjusted = [i \in 1..2 |-> of(i)]
    BY <1>0
  <2> HIDE DEF of, adjusted
  <2>2. \A i \in 1..2 : of(i) \in Job
    <3>1. \A i \in 1..2 : i = 1 \/ i = 2
      OBVIOUS
    <3> QED
      BY <1>3, <3>1
  <2>3. adjusted \in [1..2 -> Job] /\ adjusted[1] = of(1) /\ adjusted[2] = of(2)
    BY <2>1, <2>2
  <2>4. adjusted \in Seq(Job) /\ Len(adjusted) = 2
    <3>1. adjusted \in UNION {[1..k -> Job] : k \in Nat}
      BY <2>3
    <3>2. adjusted \in Seq(Job)
      BY <3>1, SeqDef
    <3>3. DOMAIN adjusted = 1..2 /\ DOMAIN adjusted = 1 .. Len(adjusted) /\ Len(adjusted) \in Nat
      BY <2>3, <3>2, LenProperties
    <3> QED
      BY <3>2, <3>3
  <2> QED
    BY <2>3, <2>4
<1>8. third \in Seq(Job) /\ Len(third) = (IF ValidBars(bars) THEN 2 ELSE 0)
      /\ (ValidBars(bars) => third[1] = of(1) /\ third[2] = of(2))
  BY <1>7
<1> HIDE DEF first, second, third, adjusted, todo
<1>9. PICK n \in {0, 1} : n = Len(second)
  BY <1>5
<1> HIDE DEF of
<1>10. /\ first \o second \in Seq(Job) /\ Len(first \o second) = 1 + n
       /\ \A i \in 1 .. 1 + n : (first \o second)[i] = IF i <= 1 THEN first[i] ELSE second[i - 1]
  <2>1. Len(first) + Len(second) = 1 + n
    BY <1>4, <1>9
  <2>2. /\ first \o second \in Seq(Job) /\ Len(first \o second) = Len(first) + Len(second)
        /\ \A i \in 1 .. Len(first) + Len(second) :
              (first \o second)[i] = IF i <= Len(first) THEN first[i] ELSE second[i - Len(first)]
    BY <1>4, <1>5, ConcatProperties
  <2> QED
    BY <2>1, <2>2, <1>4
<1>11. PICK m \in {0, 2} : m = Len(third) /\ (m = 2 <=> ValidBars(bars))
  BY <1>8
<1>12. /\ todo \in Seq(Job) /\ Len(todo) = 1 + n + m
       /\ \A i \in 1 .. 1 + n + m : todo[i] = IF i <= 1 + n THEN (first \o second)[i]
                                                            ELSE third[i - (1 + n)]
  <2> DEFINE both == first \o second
  <2>1. both \in Seq(Job) /\ Len(both) = 1 + n
    BY <1>10
  <2> HIDE DEF both
  <2>2. /\ both \o third \in Seq(Job) /\ Len(both \o third) = Len(both) + Len(third)
        /\ \A i \in 1 .. Len(both) + Len(third) :
              (both \o third)[i] = IF i <= Len(both) THEN both[i] ELSE third[i - Len(both)]
    BY <2>1, <1>8, ConcatProperties
  <2>3. Len(both) + Len(third) = 1 + n + m
    BY <2>1, <1>11
  <2>4. todo = both \o third
    BY <1>1 DEF both
  <2>5. /\ todo \in Seq(Job) /\ Len(todo) = 1 + n + m
        /\ \A i \in 1 .. 1 + n + m : todo[i] = IF i <= 1 + n THEN both[i] ELSE third[i - (1 + n)]
    BY <2>1, <2>2, <2>3, <2>4
  <2> QED
    BY <2>5 DEF both
<1>13. DOMAIN todo = 1 .. 1 + n + m /\ todo # << >>
  BY <1>12, LenProperties, EmptySeq
<1>14. /\ todo[1] = raw
       /\ n = 1 => todo[2] = said
       /\ m = 2 => todo[2 + n] = of(1) /\ todo[3 + n] = of(2)
  <2>1. todo[1] = raw
    BY <1>4, <1>10, <1>12
  <2>2. n = 1 => todo[2] = said
    BY <1>5, <1>9, <1>10, <1>12
  <2>3. m = 2 => todo[2 + n] = third[1] /\ todo[3 + n] = third[2]
    BY <1>12
  <2> QED
    BY <2>1, <2>2, <2>3, <1>8, <1>11
<1>15. \A i \in DOMAIN todo : \/ i = 1 \/ (n = 1 /\ i = 2)
                              \/ (m = 2 /\ i = 2 + n) \/ (m = 2 /\ i = 3 + n)
  BY <1>13
<1>16. /\ raw.key = "raw" /\ raw.content.bars = bars
       /\ said.key = "actions" /\ said.content.bars = bars
       /\ of(1).key = "split" /\ of(1).content.bars = bars
       /\ of(2).key = "all" /\ of(2).content.bars = bars
  BY <1>0 DEF Raw, raw, said, of
<1>17. \A i \in DOMAIN todo :
          /\ todo[i].key = (IF i = 1 THEN "raw" ELSE IF n = 1 /\ i = 2 THEN "actions"
                            ELSE IF i = 2 + n THEN "split" ELSE "all")
          /\ todo[i].content.bars = bars
          /\ todo[i].key \in {"split", "all"} => m = 2
  BY <1>14, <1>15, <1>16
<1>18. ValidBars(bars) => \A k \in {"split", "all"} : Owes(todo, k, bars)
  <2>1. m = 2 => 2 + n \in DOMAIN todo /\ 3 + n \in DOMAIN todo
    BY <1>13
  <2> QED
    BY <2>1, <1>11, <1>14, <1>16 DEF Owes
<1>19. \A i, j \in DOMAIN todo : todo[i].key = todo[j].key => i = j
  BY <1>15, <1>17
<1> QED
  BY <1>11, <1>12, <1>13, <1>14, <1>17, <1>18, <1>19 DEF raw, todo

-----------------------------------------------------------------------------
(* Steps of a writer. *)

\* An update or a synthetic build begins: what it will write is sound, whoever
\* else works is not alone any more.
LEMMA BeginStep ==
    ASSUME StoreInv, NEW w \in Writers, NEW at \in {"write", "failed"}, NEW todo \in Seq(Job),
           NEW update \in BOOLEAN, ~ Working(w), Begin(w, at, todo, update),
           UNCHANGED << manifest, reader, desk >>,
           at = "failed" => todo = << >>,
           \A i \in DOMAIN todo : todo[i].key # "actions" => Sound(todo[i]),
           ~ met => RawFirst(manifest, todo),
           at = "write" /\ update => Halfway(manifest, todo)
    PROVE  StoreInv'
<1> USE DEF StoreInv
<1>1. /\ writer'[w] = [at |-> at, todo |-> todo, list |-> << >>, update |-> update,
                       alone |-> ~ OthersWork(w)]
      /\ \A v \in Writers \ {w} :
            /\ writer'[v].at = writer[v].at /\ writer'[v].todo = writer[v].todo
            /\ writer'[v].list = writer[v].list /\ writer'[v].update = writer[v].update
            /\ writer'[v].alone <=> writer[v].alone /\ ~ Working(v)
      /\ writer'[w].at = at /\ writer'[w].todo = todo /\ writer'[w].list = << >>
      /\ writer'[w].update = update /\ (writer'[w].alone <=> ~ OthersWork(w))
      /\ writer' \in [Writers -> WriterState]
  <2>1. OthersWork(w) \in BOOLEAN /\ \A v \in Writers : Working(v) \in BOOLEAN
    BY DEF OthersWork, Working
  <2>2. \A v \in Writers : writer[v] \in WriterState
    BY DEF StoreTypeOK
  <2>3. << >> \in Seq(Entry)
    OBVIOUS
  <2>4. [at |-> at, todo |-> todo, list |-> << >>, update |-> update, alone |-> ~ OthersWork(w)] \in WriterState
    BY <2>1, <2>3 DEF WriterState
  <2>5. \A v \in Writers : [writer[v] EXCEPT !.alone = @ /\ ~ Working(v)] \in WriterState
    BY <2>1, <2>2 DEF WriterState
  <2>6. \A v \in Writers \ {w} : writer'[v] = [writer[v] EXCEPT !.alone = @ /\ ~ Working(v)]
    BY DEF Begin
  <2>7. \A v \in Writers : DOMAIN writer[v] = {"at", "todo", "list", "update", "alone"}
    BY <2>2 DEF WriterState
  <2> QED
    BY <2>4, <2>5, <2>6, <2>7 DEF Begin
<1>2. clean' = << >> /\ (met' <=> met \/ OthersWork(w)) /\ met' \in BOOLEAN
  BY DEF Begin, StoreTypeOK, OthersWork
<1>3. StoreTypeOK'
  <2>1. met' \in BOOLEAN /\ clean' \in Seq(Entry)
    BY <1>2 DEF StoreTypeOK, OthersWork
  <2> QED
    BY <1>1, <2>1 DEF StoreTypeOK
<1>4. ControlInv'
  BY <1>1 DEF ControlInv
<1>5. AloneInv'
  <2>1. ASSUME ~ met' PROVE \A v \in Writers : writer'[v].alone
    BY <2>1, <1>1, <1>2 DEF AloneInv, OthersWork
  <2>2. ASSUME NEW v \in Writers, Working(v)', writer'[v].alone
        PROVE  v = w /\ ~ OthersWork(w)
    BY <2>2, <1>1 DEF Working
  <2>3. ASSUME ~ OthersWork(w) PROVE ~ OthersWork(w)'
    BY <2>3, <1>1 DEF OthersWork, Working
  <2> QED
    BY <2>1, <2>2, <2>3, <1>1 DEF AloneInv
<1>6. SoundInv'
  BY <1>1 DEF SoundInv, Sound
<1>7. ReaderInv'
  BY DEF ReaderInv, CitedIsRead, Latest, Sound
<1>8. OriginInv'
  <2>1. CASE ~ met'
    <3>1. ~ met /\ \A v \in Writers : writer'[v].todo = writer[v].todo \/ writer'[v].todo = todo
      BY <2>1, <1>1, <1>2
    <3>2. RawFirst(manifest, todo) /\ \A v \in Writers : RawFirst(manifest, writer[v].todo)
      BY <3>1 DEF OriginInv
    <3> QED
      BY <3>1, <3>2 DEF OriginInv
  <2>2. CASE met'
    BY <2>2 DEF OriginInv
  <2> QED
    BY <2>1, <2>2
<1>9. UpdateInv'
  <2>1. ASSUME NEW v \in Writers, writer'[v].at \in {"write", "save"}, writer'[v].alone, writer'[v].update
        PROVE  Halfway(manifest', writer'[v].todo)
    <3>1. v = w
      BY <2>1, <1>1 DEF Working
    <3>2. Halfway(manifest, todo)
      BY <3>1, <2>1, <1>1
    <3> QED
      BY <3>1, <3>2, <1>1
  <2> QED
    BY <2>1, <1>2 DEF UpdateInv
<1>10. DeskInv'
  BY DEF DeskInv
<1> QED
  BY <1>3, <1>4, <1>5, <1>6, <1>7, <1>8, <1>9, <1>10

\* A job is done: it leaves the list, and the series it names, if any, ends
\* with what it had to record.
JobIsDone(w, job, entry) ==
    /\ writer[w].at \in {"write", "save"} /\ writer[w].todo # << >>
    /\ job = writer[w].todo[1] /\ entry = [content |-> job.content, ok |-> job.ok]
    /\ manifest' \in [Series -> Seq(Entry)] /\ UNCHANGED << met, clean, desk >>
    /\ writer' \in [Writers -> WriterState] /\ \A v \in Writers \ {w} : writer'[v] = writer[v]
    /\ writer'[w].at = "write" /\ writer'[w].todo = Tail(writer[w].todo)
    /\ writer'[w].list \in {writer[w].list, << >>}
    /\ writer'[w].update = writer[w].update /\ writer'[w].alone = writer[w].alone
    /\ \A k \in Series : k # job.key => manifest'[k] = manifest[k]
    /\ job.key # "actions" => manifest'[job.key] # << >> /\ Last(manifest'[job.key]) = entry
    /\ \A k \in Series : \A i \in DOMAIN manifest'[k] :
          \/ \E j \in DOMAIN manifest[k] : manifest'[k][i] = manifest[k][j]
          \/ \E j \in DOMAIN writer[w].list : manifest'[k][i] = writer[w].list[j]
          \/ k = job.key /\ manifest'[k][i] = entry
    /\ writer[w].alone => \A k \in Series :
          /\ \A i \in DOMAIN manifest[k] : i \in DOMAIN manifest'[k] /\ manifest'[k][i] = manifest[k][i]
          /\ \A i \in DOMAIN manifest'[k] :
                \/ i \in DOMAIN manifest[k] /\ manifest'[k][i] = manifest[k][i]
                \/ k = job.key /\ manifest'[k][i] = entry
    /\ reader' \in ReaderState /\ ReaderInv'

LEMMA JobDone ==
    ASSUME StoreInv, NEW w \in Writers, NEW job, NEW entry, JobIsDone(w, job, entry)
    PROVE  StoreInv'
<1> USE DEF StoreInv, JobIsDone
<1> DEFINE todo == writer[w].todo
           rest == Tail(todo)
<1>1. /\ todo \in Seq(Job) /\ 1 \in DOMAIN todo /\ job \in Job /\ rest \in Seq(Job)
      /\ \A i \in DOMAIN rest : i + 1 \in DOMAIN todo /\ rest[i] = todo[i + 1] /\ i \in Nat \ {0}
      /\ \A i \in DOMAIN todo \ {1} : i - 1 \in DOMAIN rest /\ rest[i - 1] = todo[i]
  <2>1. todo \in Seq(Job)
    BY DEF StoreTypeOK, WriterState
  <2>2. rest \in Seq(Job) => DOMAIN rest = 1 .. Len(rest) /\ Len(rest) \in Nat
    BY LenProperties
  <2>3. todo # << >> /\ job = todo[1]
    OBVIOUS
  <2> HIDE DEF rest, StoreInv, JobIsDone
  <2>4. /\ 1 \in DOMAIN todo /\ todo[1] \in Job /\ rest \in Seq(Job)
        /\ \A i \in DOMAIN rest : i + 1 \in DOMAIN todo /\ rest[i] = todo[i + 1]
        /\ \A i \in DOMAIN todo \ {1} : i - 1 \in DOMAIN rest /\ rest[i - 1] = todo[i]
    BY <2>1, <2>3, TailOf DEF rest
  <2> QED
    BY <2>1, <2>2, <2>3, <2>4
<1>2. Working(w) /\ clean = << >>
  BY DEF Working, UpdateInv
<1> HIDE DEF rest
<1>3. StoreTypeOK'
  BY DEF StoreTypeOK
<1>4. ControlInv'
  BY DEF ControlInv
<1>5. AloneInv'
  <2>1. ASSUME NEW v \in Writers, Working(v)', writer'[v].alone
        PROVE  /\ ~ OthersWork(v)'
               /\ writer'[v].at = "save" => writer'[v].list = manifest'[writer'[v].todo[1].key]
    <3>1. writer[v].alone /\ Working(v) /\ ~ OthersWork(v)
      BY <2>1, <1>2 DEF AloneInv, Working
    <3>2. v = w
      BY <3>1, <1>2 DEF OthersWork
    <3>3. (\A u \in Writers \ {w} : writer'[u] = writer[u]) /\ writer'[w].at = "write"
      OBVIOUS
    <3> HIDE DEF StoreInv, JobIsDone
    <3>4. ~ OthersWork(v)'
      BY <3>1, <3>2, <3>3 DEF OthersWork, Working
    <3> QED
      BY <3>2, <3>3, <3>4
  <2>2. \A v \in Writers : writer'[v].alone = writer[v].alone
    OBVIOUS
  <2>3. AloneInv /\ met' = met
    OBVIOUS
  <2> HIDE DEF StoreInv, JobIsDone
  <2> QED
    BY <2>1, <2>2, <2>3 DEF AloneInv
<1>6. SoundInv'
  <2>1. job.key # "actions" => Sound(entry)
    BY <1>1 DEF SoundInv, Sound
  <2>2. \A k \in Series : k # "actions"
    BY DEF Series
  <2>8. /\ \A k \in Series : \A i \in DOMAIN manifest[k] : Sound(manifest[k][i])
        /\ \A v \in Writers :
              /\ \A i \in DOMAIN writer[v].list : Sound(writer[v].list[i])
              /\ \A i \in DOMAIN writer[v].todo :
                    writer[v].todo[i].key # "actions" => Sound(writer[v].todo[i])
    BY DEF SoundInv
  <2>3. \A k \in Series : \A i \in DOMAIN manifest'[k] : Sound(manifest'[k][i])
    <3>1. \A k \in Series : \A i \in DOMAIN manifest'[k] :
             \/ \E j \in DOMAIN manifest[k] : manifest'[k][i] = manifest[k][j]
             \/ \E j \in DOMAIN writer[w].list : manifest'[k][i] = writer[w].list[j]
             \/ k = job.key /\ manifest'[k][i] = entry
      OBVIOUS
    <3> HIDE DEF StoreInv, JobIsDone
    <3> QED
      BY <2>8, <2>1, <2>2, <3>1
  <2>4. \A i \in DOMAIN writer'[w].list : Sound(writer'[w].list[i])
    <3>1. writer'[w].list = writer[w].list \/ writer'[w].list = << >>
      OBVIOUS
    <3> HIDE DEF StoreInv, JobIsDone
    <3> QED
      BY <2>8, <3>1
  <2>5. \A i \in DOMAIN rest : rest[i].key # "actions" => Sound(rest[i])
    <3> HIDE DEF StoreInv, JobIsDone
    <3> QED
      BY <1>1, <2>8
  <2>6. ASSUME NEW v \in Writers
        PROVE  /\ \A i \in DOMAIN writer'[v].list : Sound(writer'[v].list[i])
               /\ \A i \in DOMAIN writer'[v].todo :
                     writer'[v].todo[i].key # "actions" => Sound(writer'[v].todo[i])
    <3>1. CASE v = w
      <4>1. writer'[w].todo = rest
        BY DEF rest
      <4> HIDE DEF StoreInv, JobIsDone
      <4> QED
        BY <3>1, <4>1, <2>4, <2>5
    <3>2. CASE v # w
      <4>1. writer'[v] = writer[v]
        BY <3>2
      <4> HIDE DEF StoreInv, JobIsDone
      <4> QED
        BY <4>1, <2>8
    <3> QED
      BY <3>1, <3>2
  <2>7. \A e : Sound(e)' <=> Sound(e)
    BY DEF Sound
  <2> QED
    BY <2>3, <2>6 DEF SoundInv, Sound
<1>7. OriginInv'
  <2>1. CASE ~ met
    <3>1. writer[w].alone
      BY <2>1 DEF AloneInv
    <3>2. ASSUME NEW bars, HasRaw(manifest, bars) PROVE HasRaw(manifest', bars)
      <4>1. "raw" \in Series
        BY DEF Series
      <4>2. \A i \in DOMAIN manifest["raw"] :
               i \in DOMAIN manifest'["raw"] /\ manifest'["raw"][i] = manifest["raw"][i]
        BY <3>1, <4>1
      <4> HIDE DEF StoreInv, JobIsDone
      <4> QED
        BY <3>2, <4>2 DEF HasRaw
    <3>3. ASSUME job.key = "raw", job.ok PROVE HasRaw(manifest', job.content.bars)
      <4>1. "raw" \in Series /\ manifest'["raw"] \in Seq(Entry) /\ manifest'["raw"] # << >>
        BY <3>3 DEF Series
      <4>2. Len(manifest'["raw"]) \in DOMAIN manifest'["raw"]
        BY <4>1, EmptySeq, LenProperties
      <4>3. Last(manifest'["raw"]) = entry /\ entry.ok = job.ok /\ entry.content = job.content
        BY <3>3
      <4>4. manifest'["raw"][Len(manifest'["raw"])] = entry
        BY <4>3 DEF Last
      <4>5. PICK n \in DOMAIN manifest'["raw"] : manifest'["raw"][n] = entry
        BY <4>2, <4>4
      <4>6. manifest'["raw"][n].ok /\ manifest'["raw"][n].content.bars = job.content.bars
        BY <3>3, <4>3, <4>5
      <4> QED
        BY <4>6 DEF HasRaw
    <3>4. RawFirst(manifest, todo) /\ \A v \in Writers : RawFirst(manifest, writer[v].todo)
      BY <2>1 DEF OriginInv
    <3>5. \A k \in {"split", "all", "synthetic"} : \A i \in DOMAIN manifest'[k] :
             HasRaw(manifest', manifest'[k][i].content.bars)
      <4> SUFFICES ASSUME NEW k \in {"split", "all", "synthetic"}, NEW i \in DOMAIN manifest'[k]
                   PROVE  HasRaw(manifest', manifest'[k][i].content.bars)
        OBVIOUS
      <4>1. k \in Series
        BY DEF Series
      <4>2. CASE i \in DOMAIN manifest[k] /\ manifest'[k][i] = manifest[k][i]
        BY <2>1, <3>2, <4>2 DEF OriginInv
      <4>3. CASE k = job.key /\ manifest'[k][i] = entry
        <5>1. HasRaw(manifest, job.content.bars)
          BY <1>1, <3>4, <4>3 DEF RawFirst
        <5>2. entry.content = job.content
          OBVIOUS
        <5> HIDE DEF StoreInv, JobIsDone
        <5>3. HasRaw(manifest', job.content.bars)
          BY <3>2, <5>1
        <5> QED
          BY <4>3, <5>2, <5>3
      <4> QED
        BY <3>1, <4>1, <4>2, <4>3
    <3>6. ASSUME NEW v \in Writers PROVE RawFirst(manifest', writer'[v].todo)
      <4>1. CASE v = w
        <5> SUFFICES ASSUME NEW i \in DOMAIN rest, rest[i].key \in {"split", "all", "synthetic"}
                     PROVE  HasRaw(manifest', rest[i].content.bars)
          BY <4>1 DEF RawFirst, rest
        <5>1. \/ HasRaw(manifest, rest[i].content.bars)
              \/ job.key = "raw" /\ job.ok /\ job.content.bars = rest[i].content.bars
          <6>1. i + 1 \in DOMAIN todo /\ rest[i] = todo[i + 1] /\ todo[1] = job
            BY <1>1
          <6>2. RawFirst(manifest, todo)
            BY <3>4
          <6> HIDE DEF StoreInv, JobIsDone
          <6> QED
            BY <6>1, <6>2 DEF RawFirst
        <5> HIDE DEF StoreInv, JobIsDone
        <5> QED
          BY <5>1, <3>2, <3>3
      <4>2. CASE v # w
        <5>1. writer'[v] = writer[v]
          BY <4>2
        <5>2. RawFirst(manifest, writer[v].todo)
          BY <3>4
        <5> HIDE DEF StoreInv, JobIsDone
        <5> QED
          BY <5>1, <5>2, <3>2 DEF RawFirst
      <4> QED
        BY <4>1, <4>2
    <3> QED
      BY <3>5, <3>6 DEF OriginInv
  <2>2. CASE met
    BY <2>2 DEF OriginInv
  <2> QED
    BY <2>1, <2>2
<1>8. UpdateInv'
  <2> SUFFICES ASSUME NEW v \in Writers, writer'[v].at \in {"write", "save"}, writer'[v].alone,
                      writer'[v].update
               PROVE  Halfway(manifest', writer'[v].todo)
    BY <1>2 DEF UpdateInv
  <2>1. v = w
    <3>1. writer[v].alone /\ Working(v)
      BY <1>2 DEF Working
    <3>2. ~ OthersWork(v)
      BY <3>1 DEF AloneInv
    <3> QED
      BY <3>2, <1>2 DEF OthersWork
  <2>2. Halfway(manifest, todo)
    BY <2>1 DEF UpdateInv
  <2>31. \A i \in DOMAIN rest : i + 1 # 1
    BY <1>1
  <2>32. /\ \A i, j \in DOMAIN todo : todo[i].key = todo[j].key => i = j
        /\ \A i \in DOMAIN todo : todo[i].key = "raw" => i = 1
    BY <2>2 DEF Halfway
  <2>33. \A i, j \in DOMAIN rest : i + 1 = j + 1 => i = j
    BY <1>1
  <2>34. \A i, j \in DOMAIN rest : rest[i].key = rest[j].key => i = j
    <3> HIDE DEF StoreInv, JobIsDone
    <3> QED
      BY <1>1, <2>32, <2>33
  <2>35. \A i \in DOMAIN rest : rest[i].key # job.key /\ rest[i].key # "raw"
    <3>1. todo[1] = job /\ 1 \in DOMAIN todo
      BY <1>1
    <3> HIDE DEF StoreInv, JobIsDone
    <3>2. ASSUME NEW i \in DOMAIN rest
          PROVE  i + 1 \in DOMAIN todo /\ i + 1 # 1 /\ rest[i].key = todo[i + 1].key
      BY <1>1, <2>31
    <3> QED
      BY <3>1, <3>2, <2>32
  <2>4. rest # << >> => rest[1].key # "raw"
    <3>1. rest # << >> => 1 \in DOMAIN rest
      BY <1>1, TailOf
    <3> QED
      BY <3>1, <2>34, <2>35
  <2>5. ASSUME NEW k \in {"split", "all"}, NEW bars, Owes(todo, k, bars), job.key # k
        PROVE  Owes(rest, k, bars)
    <3>1. PICK i \in DOMAIN todo : todo[i].key = k /\ todo[i].content.bars = bars
      BY <2>5 DEF Owes
    <3>2. i - 1 \in DOMAIN rest /\ rest[i - 1] = todo[i]
      BY <1>1, <2>5, <3>1
    <3> QED
      BY <3>1, <3>2 DEF Owes
  <2>6. CASE job.key = "raw"
    <3>1. manifest'["raw"] # << >> /\ Last(manifest'["raw"]) = entry
      BY <2>6
    <3>2. ASSUME job.ok, NEW k \in {"split", "all"} PROVE Owes(rest, k, job.content.bars)
      <4>1. Owes(todo, k, job.content.bars)
        BY <2>2, <2>6, <3>2 DEF Halfway
      <4> QED
        BY <4>1, <2>5, <2>6
    <3> QED
      <4>1. writer'[v].todo = rest
        BY <2>1 DEF rest
      <4>2. entry.ok = job.ok /\ entry.content = job.content
        OBVIOUS
      <4>3. Halfway(manifest', rest)
        <5> HIDE DEF StoreInv, JobIsDone
        <5> QED
          BY <2>34, <2>35, <2>4, <3>1, <3>2, <4>2 DEF Halfway
      <4> QED
        BY <4>1, <4>3
  <2>7. CASE job.key # "raw"
    <3>1. manifest'["raw"] = manifest["raw"] /\ manifest["raw"] # << >>
      BY <2>2, <2>7 DEF Halfway, Series
    <3> DEFINE bars == Last(manifest["raw"]).content.bars
    <3>2. ASSUME Last(manifest["raw"]).ok, NEW k \in {"split", "all"}
          PROVE  Owes(rest, k, bars) \/ (Stands(manifest', k, bars) /\ \A i \in DOMAIN rest : rest[i].key # k)
      <4>1. Owes(todo, k, bars) \/ (Stands(manifest, k, bars) /\ \A i \in DOMAIN todo : todo[i].key # k)
        BY <2>2, <2>7, <3>2 DEF Halfway
      <4>2. CASE job.key # k /\ Owes(todo, k, bars)
        BY <4>2, <2>5
      <4>3. CASE job.key = k /\ Owes(todo, k, bars)
        <5>1. job.content.bars = bars
          BY <1>1, <2>2, <4>3 DEF Owes, Halfway
        <5>2. manifest'[k] # << >> /\ Last(manifest'[k]) = entry
          BY <4>3
        <5> QED
          BY <5>1, <5>2, <3>1, <2>34, <2>35, <4>3 DEF Stands
      <4>4. CASE Stands(manifest, k, bars) /\ \A i \in DOMAIN todo : todo[i].key # k
        <5>1. job.key # k /\ k \in Series
          BY <4>4, <1>1 DEF Series
        <5> QED
          <6>1. \A i \in DOMAIN rest : i + 1 \in DOMAIN todo /\ rest[i] = todo[i + 1]
            BY <1>1
          <6>2. manifest'[k] = manifest[k]
            BY <5>1
          <6> HIDE DEF StoreInv, JobIsDone
          <6> QED
            BY <6>1, <6>2, <4>4 DEF Stands
      <4> QED
        BY <4>1, <4>2, <4>3, <4>4
    <3> QED
      <4>1. writer'[v].todo = rest
        BY <2>1 DEF rest
      <4>2. Halfway(manifest', rest)
        BY <2>34, <2>35, <2>4, <3>1, <3>2 DEF Halfway
      <4> QED
        BY <4>1, <4>2
  <2> QED
    BY <2>6, <2>7
<1>9. DeskInv'
  BY DEF DeskInv
<1> QED
  BY <1>3, <1>4, <1>5, <1>6, <1>7, <1>8, <1>9

\* The Parquet file is in place, the manifest as it is now is in hand.
LEMMA FileWritten ==
    ASSUME StoreInv, NEW w \in Writers, writer[w].at = "write", writer[w].todo # << >>,
           writer[w].todo[1].key # "actions",
           writer' = [writer EXCEPT ![w].at = "save", ![w].list = manifest[writer[w].todo[1].key]],
           UNCHANGED << manifest, reader, met, clean, desk >>
    PROVE  StoreInv'
<1> USE DEF StoreInv
<1> DEFINE key == writer[w].todo[1].key
<1>1. key \in Series
  <2>1. writer[w].todo \in Seq(Job)
    BY DEF StoreTypeOK, WriterState
  <2>2. writer[w].todo[1] \in Job
    BY <2>1, TailOf
  <2> QED
    BY <2>2 DEF Job
<1>2. /\ writer' \in [Writers -> WriterState]
      /\ \A v \in Writers :
            /\ writer'[v].todo = writer[v].todo /\ writer'[v].alone = writer[v].alone
            /\ writer'[v].update = writer[v].update
            /\ writer'[v].at = (IF v = w THEN "save" ELSE writer[v].at)
            /\ writer'[v].list = (IF v = w THEN manifest[key] ELSE writer[v].list)
  BY <1>1 DEF StoreTypeOK, WriterState
<1> HIDE DEF key
<1>3. \A v \in Writers : Working(v)' <=> Working(v)
  BY <1>2 DEF Working
<1>4. \A v \in Writers : OthersWork(v)' <=> OthersWork(v)
  BY <1>3 DEF OthersWork
<1>5. StoreTypeOK' /\ DeskInv'
  BY <1>2 DEF StoreTypeOK, DeskInv
<1>6. ControlInv'
  BY <1>2 DEF ControlInv
<1>7. AloneInv'
  <2>1. AloneInv /\ met' = met /\ manifest' = manifest
    OBVIOUS
  <2>4. ~ met => \A v \in Writers : writer[v].alone
    BY DEF AloneInv
  <2>2. \A v \in Writers : writer'[v].alone = writer[v].alone
    BY <1>2
  <2>3. ASSUME NEW v \in Writers, Working(v)', writer'[v].alone
        PROVE  /\ ~ OthersWork(v)'
               /\ writer'[v].at = "save" => writer'[v].list = manifest'[writer'[v].todo[1].key]
    <3>1. /\ Working(v) /\ writer[v].alone /\ writer'[v].todo = writer[v].todo
          /\ writer'[v].at = (IF v = w THEN "save" ELSE writer[v].at)
          /\ writer'[v].list = (IF v = w THEN manifest[key] ELSE writer[v].list)
      BY <1>2, <1>3, <2>3
    <3>2. ~ OthersWork(v)' /\ (writer[v].at = "save" => writer[v].list = manifest[writer[v].todo[1].key])
      BY <1>4, <2>1, <3>1 DEF AloneInv
    <3> HIDE DEF StoreInv
    <3>3. CASE v = w
      BY <2>1, <3>1, <3>2, <3>3 DEF key
    <3>4. CASE v # w
      BY <2>1, <3>1, <3>2, <3>4
    <3> QED
      BY <3>3, <3>4
  <2> HIDE DEF StoreInv
  <2>5. ~ met' => \A v \in Writers : writer'[v].alone
    <3> SUFFICES ASSUME ~ met', NEW v \in Writers PROVE writer'[v].alone
      OBVIOUS
    <3>1. writer[v].alone
      BY <2>1, <2>4
    <3>2. writer'[v].alone = writer[v].alone
      BY <2>2
    <3> QED
      BY <3>1, <3>2
  <2> QED
    BY <2>3, <2>5 DEF AloneInv
<1>8. SoundInv'
  <2>1. \A v \in Writers : \A i \in DOMAIN writer'[v].list : Sound(writer'[v].list[i])
    BY <1>1, <1>2 DEF SoundInv
  <2>2. \A v \in Writers : \A i \in DOMAIN writer'[v].todo :
           writer'[v].todo[i].key # "actions" => Sound(writer'[v].todo[i])
    BY <1>2 DEF SoundInv
  <2> QED
    BY <2>1, <2>2 DEF SoundInv, Sound
<1>9. ReaderInv'
  BY DEF ReaderInv, CitedIsRead, Latest, Sound
<1>10. OriginInv'
  BY <1>2 DEF OriginInv
<1>11. UpdateInv'
  <2>1. Working(w)
    BY DEF Working
  <2>2. clean' = << >>
    BY <2>1 DEF UpdateInv
  <2>3. \A v \in Writers : writer'[v].at \in {"write", "save"} => writer[v].at \in {"write", "save"}
    BY <1>2
  <2> QED
    BY <2>2, <2>3, <1>2 DEF UpdateInv
<1> QED
  BY <1>5, <1>6, <1>7, <1>8, <1>9, <1>10, <1>11

\* A writer stops, at its end or before.
LEMMA WriterRests ==
    ASSUME StoreInv, NEW w \in Writers, Working(w), writer' = [writer EXCEPT ![w] = Idle],
           UNCHANGED << manifest, reader, met, desk >>,
           \/ clean' = << >>
           \/ clean' = clean
           \/ /\ writer[w].at = "write" /\ writer[w].todo = << >>
              /\ writer[w].update /\ writer[w].alone
              /\ clean' = Latest("raw", FALSE)
    PROVE  StoreInv'
<1> USE DEF StoreInv
<1>1. Idle \in WriterState
  <2>1. << >> \in Seq(Job) /\ << >> \in Seq(Entry)
    OBVIOUS
  <2> QED
    BY <2>1 DEF Idle, WriterState
<1>2. writer'[w] = Idle /\ \A v \in Writers \ {w} : writer'[v] = writer[v]
  BY DEF StoreTypeOK
<1>3. clean = << >>
  BY DEF UpdateInv
<1>4. writer' \in [Writers -> WriterState]
  BY <1>1 DEF StoreTypeOK
<1>5. StoreTypeOK' /\ DeskInv'
  <2>1. manifest["raw"] \in Seq(Entry)
    BY DEF StoreTypeOK, Series
  <2>2. Latest("raw", FALSE) \in Seq(Entry)
    BY <2>1, LatestIsRecorded DEF Latest
  <2>3. clean' \in Seq(Entry)
    BY <2>2, <1>3 DEF StoreTypeOK
  <2> QED
    BY <2>3, <1>4 DEF StoreTypeOK, DeskInv
<1>6. Idle.at = "idle" /\ Idle.todo = << >> /\ Idle.list = << >> /\ Idle.alone /\ DOMAIN << >> = {}
  BY DEF Idle
<1>7. ControlInv'
  BY <1>2, <1>6 DEF ControlInv
<1>8. ~ Working(w)' /\ \A v \in Writers \ {w} : Working(v)' <=> Working(v)
  BY <1>2, <1>6 DEF Working
<1>9. \A v \in Writers : OthersWork(v)' => OthersWork(v)
  BY <1>8 DEF OthersWork
<1>10. AloneInv'
  BY <1>2, <1>6, <1>8, <1>9 DEF AloneInv
<1>11. SoundInv'
  <2>1. \A v \in Writers : \/ writer'[v].list = writer[v].list /\ writer'[v].todo = writer[v].todo
                           \/ writer'[v].list = << >> /\ writer'[v].todo = << >>
    BY <1>2, <1>6
  <2> QED
    BY <2>1, <1>6 DEF SoundInv, Sound
<1>12. ReaderInv'
  BY DEF ReaderInv, CitedIsRead, Latest, Sound
<1>13. OriginInv'
  <2>1. RawFirst(manifest, << >>)
    BY DEF RawFirst
  <2> QED
    BY <2>1, <1>2, <1>6 DEF OriginInv
<1>14. UpdateInv'
  <2>1. ASSUME NEW v \in Writers, writer'[v].at \in {"write", "save"}, writer'[v].alone, writer'[v].update
        PROVE  Halfway(manifest', writer'[v].todo)
    BY <2>1, <1>2, <1>6 DEF UpdateInv
  <2>2. ASSUME clean' # << >>
        PROVE  (\A v \in Writers : ~ Working(v)') /\ UpdateIsComplete'
    <3>1. /\ writer[w].at = "write" /\ writer[w].todo = << >> /\ writer[w].alone
          /\ clean' = Latest("raw", FALSE) /\ Halfway(manifest, writer[w].todo)
      BY <2>2, <1>3 DEF UpdateInv
    <3>2. \A v \in Writers : ~ Working(v)'
      BY <3>1, <1>8 DEF AloneInv, OthersWork
    <3>3. /\ manifest["raw"] # << >>
          /\ Last(manifest["raw"]).ok =>
               \A k \in {"split", "all"} : Stands(manifest, k, Last(manifest["raw"]).content.bars)
      BY <3>1, <1>6 DEF Halfway, Owes
    <3>4. \A k \in Series : manifest[k] \in Seq(Entry)
      BY DEF StoreTypeOK
    <3>5. clean' = << Last(manifest["raw"]) >>
      BY <3>1, <3>3, <3>4, LastIsLatest DEF Latest, Series
    <3>6. ASSUME clean'[1].ok PROVE Latest("raw", TRUE) = clean'
      BY <3>3, <3>4, <3>5, <3>6, LastIsLatest DEF Latest, Series
    <3>7. ASSUME clean'[1].ok, NEW k \in {"split", "all"}
          PROVE  /\ Latest(k, FALSE) # << >> /\ Latest(k, FALSE)[1].content.bars = clean'[1].content.bars
                 /\ Latest(k, FALSE)[1].ok => Latest(k, TRUE) = Latest(k, FALSE)
      <4>1. Stands(manifest, k, Last(manifest["raw"]).content.bars)
        BY <3>3, <3>5, <3>7
      <4>2. /\ Latest(k, FALSE) = << Last(manifest[k]) >>
            /\ Last(manifest[k]).ok => Latest(k, TRUE) = << Last(manifest[k]) >>
        BY <4>1, <3>4, LastIsLatest DEF Stands, Latest, Series
      <4>3. \A e : << e >> # << >> /\ << e >>[1] = e
        OBVIOUS
      <4> QED
        BY <4>1, <4>2, <4>3, <3>5 DEF Stands
    <3>8. \A i \in DOMAIN Modes : Modes[i] \in {"split", "all"}
      BY DEF Modes
    <3> QED
      BY <3>2, <3>6, <3>7, <3>8 DEF UpdateIsComplete, Latest
  <2> QED
    BY <2>1, <2>2 DEF UpdateInv
<1> QED
  BY <1>5, <1>7, <1>10, <1>11, <1>12, <1>13, <1>14

-----------------------------------------------------------------------------
(* The actions of the data store. *)

LEMMA UpdateKeeps ==
    ASSUME StoreInv, NEW w \in Writers, NEW f \in Answers, NEW a \in -1..1,
           NEW p \in [DOMAIN Modes -> BOOLEAN], Update(w, f, a, p)
    PROVE  StoreInv'
<1> DEFINE stored == Latest("raw", TRUE)
           bars   == IF stored = << >> THEN f ELSE Merged(stored[1].content.bars, f)
           todo   == WritesOf(bars, a, p)
<1>1. manifest["raw"] \in Seq(Entry)
  BY DEF StoreInv, StoreTypeOK, Series
<1>2. bars \in BarPair
  <2>1. f \in BarPair
    BY AnswersAreSeries DEF BarPair
  <2>2. ASSUME stored # << >> PROVE stored[1].content.bars \in BarPair
    <3>1. stored[1] \in Entry
      BY <1>1, <2>2, LatestIsRecorded DEF Latest
    <3> QED
      BY <3>1 DEF Entry, Content
  <2>3. \A b \in BarPair : Merged(b, f) \in BarPair
    BY <2>1 DEF Merged, BarPair
  <2> QED
    BY <2>1, <2>2, <2>3
<1> HIDE DEF stored, bars
<1>3. /\ todo \in Seq(Job) /\ todo # << >> /\ todo[1].key = "raw" /\ todo[1].content.bars = bars
      /\ (todo[1].ok <=> ValidBars(bars)) /\ todo[1].ok \in BOOLEAN
      /\ \A i \in DOMAIN todo :
            /\ todo[i].key = "raw" => i = 1
            /\ todo[i].key # "synthetic" /\ todo[i].content.bars = bars
            /\ todo[i].key \in {"split", "all"} => ValidBars(bars)
      /\ \A i, j \in DOMAIN todo : todo[i].key = todo[j].key => i = j
      /\ ValidBars(bars) => \A k \in {"split", "all"} : Owes(todo, k, bars)
  <2>1. /\ todo \in Seq(Job) /\ todo # << >>
        /\ todo[1] = [key |-> "raw", content |-> Raw(bars), ok |-> ValidBars(bars)]
        /\ \A i \in DOMAIN todo :
              /\ todo[i].key = "raw" => i = 1
              /\ todo[i].key # "synthetic" /\ todo[i].content.bars = bars
              /\ todo[i].key \in {"split", "all"} => ValidBars(bars)
        /\ \A i, j \in DOMAIN todo : todo[i].key = todo[j].key => i = j
        /\ ValidBars(bars) => \A k \in {"split", "all"} : Owes(todo, k, bars)
    BY <1>2, WritesAre
  <2> HIDE DEF todo
  <2>2. todo[1].key = "raw" /\ todo[1].content.bars = bars /\ todo[1].ok = ValidBars(bars)
    BY <2>1 DEF Raw
  <2>3. ValidBars(bars) \in BOOLEAN
    BY DEF ValidBars
  <2> QED
    BY <2>1, <2>2, <2>3
<1>4. \A i \in DOMAIN todo : todo[i].key \in {"raw", "split", "all", "synthetic", "actions"}
  <2> HIDE DEF todo
  <2>1. \A i \in DOMAIN todo : todo[i] \in Job
    BY <1>3, LenProperties, ElementOfSeq
  <2> QED
    BY <2>1 DEF Job, Series
<1> HIDE DEF todo
<1>5. \A i \in DOMAIN todo : todo[i].key # "actions" => Sound(todo[i])
  BY <1>3, <1>4 DEF Sound
<1>6. RawFirst(manifest, todo)
  BY <1>3 DEF RawFirst
<1>7. Halfway(manifest, todo)
  BY <1>3 DEF Halfway
<1>8. /\ ~ Working(w) /\ UNCHANGED << manifest, reader, desk >>
      /\ Begin(w, "failed", << >>, TRUE) \/ Begin(w, "write", todo, TRUE)
  BY DEF Update, stored, bars, todo
<1>9. CASE Begin(w, "failed", << >>, TRUE)
  <2>1. << >> \in Seq(Job) /\ DOMAIN << >> = {} /\ RawFirst(manifest, << >>)
    BY DEF RawFirst
  <2> QED
    BY <1>8, <1>9, <2>1, BeginStep
<1>10. CASE Begin(w, "write", todo, TRUE)
  BY <1>3, <1>5, <1>6, <1>7, <1>8, <1>10, BeginStep
<1> QED
  BY <1>8, <1>9, <1>10

LEMMA SynthesizeKeeps ==
    ASSUME StoreInv, NEW w \in Writers, NEW tracks \in BOOLEAN, Synthesize(w, tracks)
    PROVE  StoreInv'
<1> DEFINE under == Latest("all", TRUE)
           job   == [key |-> "synthetic", content |-> under[1].content, ok |-> tracks]
           todo  == << job >>
<1>1. manifest["all"] \in Seq(Entry) /\ under # << >>
  BY DEF StoreInv, StoreTypeOK, Series, Synthesize
<1>2. PICK i \in DOMAIN manifest["all"] :
          under[1] = manifest["all"][i] /\ manifest["all"][i] \in Entry /\ manifest["all"][i].ok
  BY <1>1, LatestIsRecorded DEF Latest
<1>3. /\ manifest["all"][i] \in Entry /\ under[1] = manifest["all"][i] /\ Sound(under[1])
      /\ ~ met => HasRaw(manifest, under[1].content.bars)
  <2>2. Sound(manifest["all"][i]) /\ (~ met => HasRaw(manifest, manifest["all"][i].content.bars))
    BY <1>2 DEF StoreInv, SoundInv, OriginInv, Series
  <2> QED
    BY <1>2, <2>2
<1> HIDE DEF under
<1>4. job \in Job
  <2>1. under[1].content \in Content
    BY <1>3 DEF Entry
  <2> QED
    BY <2>1 DEF Job, Series
<1>5. job.key = "synthetic" /\ job.content = under[1].content /\ ValidBars(job.content.bars)
  BY <1>2, <1>3 DEF Sound
<1> HIDE DEF job
<1>6. todo \in Seq(Job) /\ DOMAIN todo = {1} /\ todo[1] = job
  BY <1>4
<1>7. \A k \in DOMAIN todo : todo[k].key # "actions" => Sound(todo[k])
  BY <1>5, <1>6 DEF Sound
<1>8. ~ met => RawFirst(manifest, todo)
  BY <1>3, <1>5, <1>6 DEF RawFirst
<1>9. ~ Working(w) /\ UNCHANGED << manifest, reader, desk >> /\ Begin(w, "write", todo, FALSE)
  BY DEF Synthesize, under, job
<1> QED
  BY <1>6, <1>7, <1>8, <1>9, BeginStep

\* Actions that write a file, a manifest or the corporate actions.
LEMMA WriteKeeps ==
    ASSUME StoreInv, NEW w \in Writers, WriteFile(w) \/ SaveManifest(w) \/ WriteActions(w)
    PROVE  StoreInv'
<1> USE DEF StoreInv
<1> DEFINE job   == writer[w].todo[1]
           entry == [content |-> job.content, ok |-> job.ok]
<1>1. writer[w] \in WriterState /\ writer[w].todo \in Seq(Job) /\ writer[w].list \in Seq(Entry)
      /\ \A k \in Series : manifest[k] \in Seq(Entry)
  BY DEF StoreTypeOK, WriterState
<1>2. writer[w].todo # << >> /\ writer[w].at \in {"write", "save"}
  BY DEF WriteFile, SaveManifest, WriteActions, ControlInv
<1>3. /\ Head(writer[w].todo) = job /\ job \in Job /\ Tail(writer[w].todo) \in Seq(Job)
      /\ job.key # "actions" => job.key \in Series
      /\ job.ok \in BOOLEAN /\ entry \in Entry
  <2>1. Head(writer[w].todo) = job /\ job \in Job /\ Tail(writer[w].todo) \in Seq(Job)
    BY <1>1, <1>2, TailOf
  <2> QED
    BY <2>1 DEF Job, Entry
<1> HIDE DEF job, entry
<1>4. << >> \in Seq(Entry)
  OBVIOUS
<1>5. CASE WriteFile(w) /\ ~ (manifest[job.key] # << >> /\ Last(manifest[job.key]) = entry)
  <2>1. /\ writer[w].at = "write" /\ job.key # "actions"
        /\ writer' = [writer EXCEPT ![w].at = "save", ![w].list = manifest[job.key]]
        /\ UNCHANGED << manifest, reader, met, clean, desk >>
    BY <1>3, <1>5 DEF WriteFile, entry
  <2> QED
    BY <1>2, <2>1, FileWritten DEF job
<1>6. CASE WriteActions(w) \/ (WriteFile(w) /\ manifest[job.key] # << >> /\ Last(manifest[job.key]) = entry)
  <2>1. /\ writer[w].at = "write"
        /\ writer' = [writer EXCEPT ![w].todo = Tail(@)]
        /\ UNCHANGED << manifest, reader, met, clean, desk >>
        /\ job.key # "actions" => manifest[job.key] # << >> /\ Last(manifest[job.key]) = entry
    BY <1>3, <1>6 DEF WriteFile, WriteActions, entry
  <2>2. /\ writer' \in [Writers -> WriterState] /\ \A v \in Writers \ {w} : writer'[v] = writer[v]
        /\ writer'[w].at = "write" /\ writer'[w].todo = Tail(writer[w].todo)
        /\ writer'[w].list = writer[w].list
        /\ writer'[w].update = writer[w].update /\ writer'[w].alone = writer[w].alone
    BY <1>1, <1>3, <2>1 DEF StoreTypeOK, WriterState
  <2>3. reader' \in ReaderState /\ ReaderInv' /\ manifest' \in [Series -> Seq(Entry)]
    BY <2>1 DEF StoreTypeOK, ReaderInv, CitedIsRead, Latest, Sound
  <2>4. /\ \A k \in Series : k # job.key => manifest'[k] = manifest[k]
        /\ job.key # "actions" => manifest'[job.key] # << >> /\ Last(manifest'[job.key]) = entry
        /\ \A k \in Series : \A i \in DOMAIN manifest'[k] :
              \E j \in DOMAIN manifest[k] : manifest'[k][i] = manifest[k][j]
        /\ \A k \in Series :
              /\ \A i \in DOMAIN manifest[k] : i \in DOMAIN manifest'[k] /\ manifest'[k][i] = manifest[k][i]
              /\ \A i \in DOMAIN manifest'[k] : i \in DOMAIN manifest[k] /\ manifest'[k][i] = manifest[k][i]
    BY <2>1
  <2>5. job = writer[w].todo[1] /\ entry = [content |-> job.content, ok |-> job.ok]
    BY DEF job, entry
  <2>6. writer'[w].list \in {writer[w].list, << >>} /\ UNCHANGED << met, clean, desk >>
    BY <2>1, <2>2
  <2>7. JobIsDone(w, job, entry)
    BY <1>2, <2>2, <2>3, <2>4, <2>5, <2>6 DEF JobIsDone
  <2> QED
    BY <2>7, JobDone
<1>7. CASE SaveManifest(w)
  <2>1. /\ writer[w].at = "save" /\ job.key \in Series
        /\ manifest' = [manifest EXCEPT ![job.key] = Append(writer[w].list, entry)]
        /\ writer' = [writer EXCEPT ![w].at = "write", ![w].todo = Tail(@), ![w].list = << >>]
        /\ reader' = [reader EXCEPT !.moved =
                         @ \/ (reader.at \in {"found", "read"} /\ reader.key = job.key)]
        /\ UNCHANGED << met, clean, desk >>
    BY <1>3, <1>7 DEF SaveManifest, ControlInv, job, entry
  <2>2. /\ writer' \in [Writers -> WriterState] /\ \A v \in Writers \ {w} : writer'[v] = writer[v]
        /\ writer'[w].at = "write" /\ writer'[w].todo = Tail(writer[w].todo)
        /\ writer'[w].list = << >>
        /\ writer'[w].update = writer[w].update /\ writer'[w].alone = writer[w].alone
    BY <1>1, <1>3, <1>4, <2>1 DEF StoreTypeOK, WriterState
  <2> DEFINE longer == Append(writer[w].list, entry)
  <2>3. /\ longer \in Seq(Entry) /\ longer # << >> /\ Last(longer) = entry
        /\ \A i \in DOMAIN writer[w].list : i \in DOMAIN longer /\ longer[i] = writer[w].list[i]
        /\ \A i \in DOMAIN longer :
              longer[i] = entry \/ (i \in DOMAIN writer[w].list /\ longer[i] = writer[w].list[i])
    BY <1>1, <1>3, AppendOf
  <2> HIDE DEF longer
  <2>4. /\ manifest' \in [Series -> Seq(Entry)] /\ manifest'[job.key] = longer
        /\ \A k \in Series : k # job.key => manifest'[k] = manifest[k]
    BY <2>1, <2>3 DEF StoreTypeOK, longer
  <2>5. writer[w].alone => writer[w].list = manifest[job.key]
    BY <2>1 DEF AloneInv, Working, job
  <2>6. /\ reader' \in ReaderState
        /\ \A f \in {"at", "key", "any", "info", "got", "cited"} : reader'[f] = reader[f]
        /\ reader'.moved <=> reader.moved \/ (reader.at \in {"found", "read"} /\ reader.key = job.key)
    BY <2>1 DEF StoreTypeOK, ReaderState
  <2>7. ReaderInv'
    <3>1. /\ reader'.at = reader.at /\ reader'.key = reader.key /\ (reader'.any <=> reader.any)
          /\ reader'.info = reader.info /\ reader'.got = reader.got /\ reader'.cited = reader.cited
          /\ reader'.any = reader.any
      BY <2>6
    <3>2. reader.key \in Series
      BY DEF StoreTypeOK, ReaderState
    <3>3. reader.at \in {"found", "read"} /\ ~ reader'.moved =>
             ~ reader.moved /\ manifest'[reader.key] = manifest[reader.key]
      BY <2>4, <2>6, <3>2
    <3> QED
      BY <2>6, <3>1, <3>3 DEF ReaderInv, CitedIsRead, Latest, Sound
  <2>8. \A k \in Series : \A i \in DOMAIN manifest'[k] :
           \/ \E j \in DOMAIN manifest[k] : manifest'[k][i] = manifest[k][j]
           \/ \E j \in DOMAIN writer[w].list : manifest'[k][i] = writer[w].list[j]
           \/ k = job.key /\ manifest'[k][i] = entry
    BY <2>3, <2>4
  <2>9. writer[w].alone => \A k \in Series :
           /\ \A i \in DOMAIN manifest[k] : i \in DOMAIN manifest'[k] /\ manifest'[k][i] = manifest[k][i]
           /\ \A i \in DOMAIN manifest'[k] :
                 \/ i \in DOMAIN manifest[k] /\ manifest'[k][i] = manifest[k][i]
                 \/ k = job.key /\ manifest'[k][i] = entry
    BY <2>3, <2>4, <2>5
  <2>10. job = writer[w].todo[1] /\ entry = [content |-> job.content, ok |-> job.ok]
    BY DEF job, entry
  <2>11. writer'[w].list \in {writer[w].list, << >>} /\ UNCHANGED << met, clean, desk >>
         /\ (job.key # "actions" => manifest'[job.key] # << >> /\ Last(manifest'[job.key]) = entry)
    BY <2>1, <2>2, <2>3, <2>4
  <2>12. JobIsDone(w, job, entry)
    BY <1>2, <2>2, <2>4, <2>6, <2>7, <2>8, <2>9, <2>10, <2>11 DEF JobIsDone
  <2> QED
    BY <2>12, JobDone
<1> QED
  BY <1>5, <1>6, <1>7

\* A writer ends, or is killed.
LEMMA RestKeeps ==
    ASSUME StoreInv, NEW w \in Writers, Finish(w) \/ Crash(w)
    PROVE  StoreInv'
<1>1. CASE Crash(w)
  BY <1>1, WriterRests DEF Crash
<1>2. CASE Finish(w)
  <2>1. Working(w) /\ writer' = [writer EXCEPT ![w] = Idle] /\ UNCHANGED << manifest, reader, met, desk >>
    BY <1>2 DEF Finish, Working
  <2>2. \/ clean' = << >>
        \/ clean' = clean
        \/ /\ writer[w].at = "write" /\ writer[w].todo = << >>
           /\ writer[w].update /\ writer[w].alone
           /\ clean' = Latest("raw", FALSE)
    BY <1>2 DEF Finish
  <2> QED
    BY <2>1, <2>2, WriterRests
<1> QED
  BY <1>1, <1>2

\* Steps of the reader, the disk and the import directory leave the writers alone.
LEMMA OthersKeep ==
    ASSUME StoreInv, UNCHANGED << manifest, writer, met, clean >>,
           reader' \in ReaderState, ReaderInv', desk' \in DeskState, DeskInv'
    PROVE  StoreInv'
BY DEF StoreInv, StoreTypeOK, ControlInv, AloneInv, SoundInv, OriginInv, UpdateInv, Working, OthersWork,
       UpdateIsComplete, Latest

LEMMA ReaderKeeps ==
    ASSUME StoreInv, (\E k \in Series, any \in BOOLEAN : Lookup(k, any)) \/ ReadSnapshot \/ Cite
    PROVE  StoreInv'
<1> USE DEF StoreInv
<1>1. UNCHANGED << manifest, writer, met, clean, desk >>
  BY DEF Lookup, ReadSnapshot, Cite
<1>2. \A k \in Series : manifest[k] \in Seq(Entry)
  BY DEF StoreTypeOK
<1>3. ASSUME NEW k \in Series, NEW valid \in BOOLEAN, Latest(k, valid) # << >>
      PROVE  /\ Len(Latest(k, valid)) = 1 /\ Latest(k, valid)[1] \in Entry
             /\ Sound(Latest(k, valid)[1]) /\ (valid => Latest(k, valid)[1].ok)
  <2>1. PICK i \in DOMAIN manifest[k] :
           /\ Latest(k, valid) = << manifest[k][i] >> /\ Latest(k, valid)[1] = manifest[k][i]
           /\ manifest[k][i] \in Entry
           /\ manifest[k][i].ok \/ ~ valid
    BY <1>2, <1>3, LatestIsRecorded DEF Latest
  <2>2. Sound(manifest[k][i])
    BY DEF SoundInv
  <2>3. \A e : Len(<< e >>) = 1
    OBVIOUS
  <2> QED
    BY <2>1, <2>2, <2>3
<1>4. \A k \in Series, valid \in BOOLEAN : Latest(k, valid) \in Seq(Entry) /\ Latest(k, valid)' = Latest(k, valid)
  BY <1>1, <1>2, LatestIsRecorded DEF Latest
<1>5. reader' \in ReaderState /\ ReaderInv'
  <2>1. ASSUME NEW k \in Series, NEW any \in BOOLEAN, Lookup(k, any)
        PROVE  reader' \in ReaderState /\ ReaderInv'
    <3>1. /\ reader'.at = (IF Latest(k, ~ any) = << >> THEN "error" ELSE "found")
          /\ reader'.key = k /\ (reader'.any <=> any) /\ reader'.info = Latest(k, ~ any)
          /\ reader'.any = any /\ reader'.moved = FALSE
          /\ reader' \in ReaderState
      <4>1. << 0, 0 >> \in BarPair
        BY DEF BarPair
      <4>2. NoFile \in Content
        BY <4>1 DEF NoFile, Content
      <4>3. << >> \in Seq(Entry)
        OBVIOUS
      <4>4. reader' = [Quiet EXCEPT !.key = k, !.any = any, !.info = Latest(k, ~ any),
                                    !.at = IF Latest(k, ~ any) = << >> THEN "error" ELSE "found"]
        BY <2>1 DEF Lookup
      <4>5. (~ any) \in BOOLEAN /\ Latest(k, ~ any) \in Seq(Entry)
        BY <1>4
      <4> QED
        BY <4>2, <4>3, <4>4, <4>5 DEF Quiet, ReaderState
    <3>2. (~ any) \in BOOLEAN
      OBVIOUS
    <3> QED
      BY <1>1, <1>3, <1>4, <3>1, <3>2 DEF ReaderInv, CitedIsRead
  <2>2. ASSUME ReadSnapshot PROVE reader' \in ReaderState /\ ReaderInv'
    <3>1. reader \in ReaderState /\ reader.at = "found" /\ reader.key \in Series /\ reader.any \in BOOLEAN
      BY <2>2 DEF ReadSnapshot, StoreTypeOK, ReaderState
    <3>2. reader.info[1].content \in Content
      <4>1. reader.info \in Seq(Entry) /\ Len(reader.info) = 1
        BY <3>1 DEF ReaderInv, ReaderState
      <4>2. reader.info[1] \in Entry
        BY <4>1, ElementOfSeq
      <4> QED
        BY <4>2 DEF Entry
    <3>3. \/ reader' = [reader EXCEPT !.at = "read", !.got = reader.info[1].content]
          \/ reader' = [reader EXCEPT !.at = "error"]
      BY <2>2 DEF ReadSnapshot
    <3>4. /\ reader' \in ReaderState /\ reader'.info = reader.info /\ reader'.key = reader.key
          /\ reader'.any = reader.any /\ reader'.moved = reader.moved
          /\ \/ reader'.at = "read" /\ reader'.got = reader.info[1].content
             \/ reader'.at = "error"
      BY <3>1, <3>2, <3>3 DEF ReaderState
    <3>5. Latest(reader.key, ~ reader.any)' = Latest(reader.key, ~ reader.any)
      BY <1>1, <3>4 DEF Latest
    <3> QED
      BY <3>1, <3>4, <3>5 DEF ReaderInv, CitedIsRead, Sound
  <2>3. ASSUME Cite PROVE reader' \in ReaderState /\ ReaderInv'
    <3>1. reader \in ReaderState /\ reader.at = "read" /\ reader.key \in Series /\ reader.any \in BOOLEAN
      BY <2>3 DEF Cite, StoreTypeOK, ReaderState
    <3>2. (~ reader.any) \in BOOLEAN /\ Latest(reader.key, ~ reader.any) \in Seq(Entry)
      BY <3>1, <1>4
    <3>3. reader' = [reader EXCEPT !.at = "done", !.cited = Latest(reader.key, ~ reader.any)]
      BY <2>3 DEF Cite
    <3>4. /\ reader' \in ReaderState /\ reader'.info = reader.info /\ reader'.key = reader.key
          /\ reader'.any = reader.any /\ reader'.moved = reader.moved /\ reader'.got = reader.got
          /\ reader'.at = "done" /\ reader'.cited = Latest(reader.key, ~ reader.any)
      BY <3>1, <3>2, <3>3 DEF ReaderState
    <3> QED
      BY <3>1, <3>4 DEF ReaderInv, CitedIsRead, Sound
  <2> QED
    BY <2>1, <2>2, <2>3
<1>6. desk' \in DeskState /\ DeskInv'
  BY <1>1 DEF StoreTypeOK, DeskInv
<1> QED
  BY <1>1, <1>5, <1>6, OthersKeep

\* The import directory: what an upload does to the files, and what it keeps.
LEMMA DeskKeeps ==
    ASSUME desk \in DeskState, DeskInv,
           (\E v \in Uploads : Archive(v)) \/ PutFile \/ DeskStops \/ Second \/ UNCHANGED desk
    PROVE  /\ desk' \in DeskState /\ DeskInv'
           /\ \/ desk'.shared
              \/ /\ \A s \in 0..MaxSeconds : desk.archive[s] # 0 => desk'.archive[s] = desk.archive[s]
                 /\ \/ desk.file = 0 \/ desk'.file = desk.file
                    \/ \E s \in 0..MaxSeconds : desk'.archive[s] = desk.file
<1> USE DEF DeskInv, DeskState
<1>1. ASSUME NEW v \in Uploads, Archive(v)
      PROVE  /\ desk' \in DeskState /\ DeskInv'
             /\ \/ desk'.shared
                \/ /\ \A s \in 0..MaxSeconds : desk.archive[s] # 0 => desk'.archive[s] = desk.archive[s]
                   /\ \/ desk.file = 0 \/ \E s \in 0..MaxSeconds : desk'.archive[s] = desk.file
  <2> DEFINE now  == desk.second
             new  == IF desk.file = 0 THEN desk.archive ELSE [desk.archive EXCEPT ![now] = desk.file]
             both == desk.shared \/ (desk.file # 0 /\ desk.archive[now] # 0)
  <2>1. new \in [0..MaxSeconds -> Versions] /\ both \in BOOLEAN /\ v \in Versions /\ 0 \in Versions
    BY DEF Versions
  <2>2. desk' = [desk EXCEPT !.at = "archived", !.up = v, !.file = 0, !.shared = both, !.archive = new]
    BY <1>1 DEF Archive
  <2> HIDE DEF new, both
  <2>3. /\ desk' \in DeskState /\ desk'.file = 0 /\ (desk'.shared <=> both) /\ desk'.archive = new
    BY <2>1, <2>2
  <2>4. \/ both
        \/ /\ \A s \in 0..MaxSeconds : desk.archive[s] # 0 => new[s] = desk.archive[s]
           /\ \/ desk.file = 0 \/ \E s \in 0..MaxSeconds : new[s] = desk.file
    BY DEF new, both
  <2> QED
    BY <2>3, <2>4
<1>2. ASSUME PutFile \/ DeskStops \/ Second \/ UNCHANGED desk
      PROVE  /\ desk' \in DeskState /\ DeskInv' /\ desk'.archive = desk.archive
             /\ desk.file = 0 \/ desk'.file = desk.file
  <2>1. CASE PutFile
    BY <2>1 DEF PutFile
  <2>2. CASE DeskStops
    BY <2>2 DEF DeskStops
  <2>3. CASE Second
    BY <2>3, ClockIsBounded DEF Second
  <2> QED
    BY <1>2, <2>1, <2>2, <2>3
<1> QED
  BY <1>1, <1>2

LEMMA DeskStep ==
    ASSUME StoreInv, UNCHANGED << manifest, writer, reader, met, clean >>,
           (\E v \in Uploads : Archive(v)) \/ PutFile \/ DeskStops \/ Second \/ UNCHANGED desk
    PROVE  StoreInv'
<1>1. desk' \in DeskState /\ DeskInv'
  BY DeskKeeps DEF StoreInv, StoreTypeOK
<1>2. reader' \in ReaderState /\ ReaderInv'
  BY DEF StoreInv, StoreTypeOK, ReaderInv, CitedIsRead, Latest, Sound
<1> QED
  BY <1>1, <1>2, OthersKeep

LEMMA StoreStep ==
    ASSUME StoreInv, [StoreNext]_storeVars
    PROVE  StoreInv'
<1>1. ASSUME NEW w \in Writers, NEW f \in Answers, NEW a \in -1..1,
             NEW p \in [DOMAIN Modes -> BOOLEAN], Update(w, f, a, p)
      PROVE  StoreInv'
  BY <1>1, UpdateKeeps
<1>2. ASSUME NEW w \in Writers, NEW t \in BOOLEAN, Synthesize(w, t) PROVE StoreInv'
  BY <1>2, SynthesizeKeeps
<1>3. ASSUME NEW w \in Writers, WriteFile(w) \/ SaveManifest(w) \/ WriteActions(w) PROVE StoreInv'
  BY <1>3, WriteKeeps
<1>4. ASSUME NEW w \in Writers, Finish(w) \/ Crash(w) PROVE StoreInv'
  BY <1>4, RestKeeps
<1>5. CASE (\E k \in Series, any \in BOOLEAN : Lookup(k, any)) \/ ReadSnapshot \/ Cite
  BY <1>5, ReaderKeeps
<1>6. CASE (\E v \in Uploads : Archive(v)) \/ PutFile \/ DeskStops \/ Second
  <2>1. UNCHANGED << manifest, writer, reader, met, clean >>
    BY <1>6 DEF Archive, PutFile, DeskStops, Second
  <2> QED
    BY <1>6, <2>1, DeskStep
<1>7. CASE \E k \in Series : \E content \in files[k] : Damage(k, content)
  <2>1. UNCHANGED << manifest, writer, reader, met, clean, desk >>
    BY <1>7 DEF Damage
  <2> QED
    BY <2>1, DeskStep
<1>8. CASE UNCHANGED storeVars
  BY <1>8, DeskStep DEF storeVars
<1> QED
  BY <1>1, <1>2, <1>3, <1>4, <1>5, <1>6, <1>7, <1>8 DEF StoreNext

LEMMA StoreBegins == StoreInit => StoreInv
<1> SUFFICES ASSUME StoreInit PROVE StoreInv
  OBVIOUS
<1> USE DEF StoreInit
<1>1. << >> \in Seq(Job) /\ << >> \in Seq(Entry) /\ DOMAIN << >> = {}
  OBVIOUS
<1>2. NoFile \in Content
  <2>1. << 0, 0 >> \in BarPair
    BY DEF BarPair
  <2> QED
    BY <2>1 DEF NoFile, Content
<1>3. Idle \in WriterState /\ Idle.at = "idle" /\ Idle.todo = << >> /\ Idle.list = << >> /\ Idle.alone
  BY <1>1 DEF Idle, WriterState
<1>4. Quiet \in ReaderState /\ Quiet.at = "idle"
  BY <1>1, <1>2 DEF Quiet, ReaderState, Series
<1>5. desk \in DeskState /\ desk.at = "idle"
  BY ClockIsBounded DEF DeskState, Versions
<1>6. StoreTypeOK
  BY <1>1, <1>3, <1>4, <1>5 DEF StoreTypeOK
<1>7. \A w \in Writers : writer[w] = Idle /\ ~ Working(w)
  BY <1>3 DEF Working
<1>8. ControlInv /\ AloneInv /\ ReaderInv /\ DeskInv
  BY <1>3, <1>4, <1>5, <1>7 DEF ControlInv, AloneInv, ReaderInv, DeskInv, CitedIsRead
<1>9. SoundInv
  BY <1>1, <1>3, <1>7 DEF SoundInv
<1>10. OriginInv
  BY <1>1, <1>3, <1>7 DEF OriginInv, RawFirst, Series
<1>11. UpdateInv
  BY <1>3, <1>7 DEF UpdateInv
<1> QED
  BY <1>6, <1>8, <1>9, <1>10, <1>11 DEF StoreInv

(* What a reader is handed passed validation, is what was recorded and what  *)
(* is cited, has its raw snapshot and, after an update that ran alone, is    *)
(* that update's: for any writers, answers and crashes (store.py, pipeline.py).*)
THEOREM ReadersGetTheRecord == StoreSpec => []StoreIsSound
<1>1. StoreInv => StoreIsSound
  <2> SUFFICES ASSUME StoreInv PROVE StoreIsSound
    OBVIOUS
  <2>1. ServedIsValid
    BY DEF StoreInv, ReaderInv, ServedIsValid, Sound
  <2>2. DerivedHasItsRaw
    <3>1. CASE met
      BY <3>1 DEF DerivedHasItsRaw
    <3>2. CASE ~ met
      <4>1. \A k \in {"split", "all", "synthetic"} : \A i \in DOMAIN manifest[k] :
               HasRaw(manifest, manifest[k][i].content.bars)
        BY <3>2 DEF StoreInv, OriginInv
      <4>2. ASSUME NEW k \in {"split", "all", "synthetic"}, NEW s \in ToSet(manifest[k])
            PROVE  \E r \in ToSet(manifest["raw"]) : r.ok /\ r.content.bars = s.content.bars
        <5>1. PICK i \in DOMAIN manifest[k] : s = manifest[k][i]
          BY DEF ToSet
        <5>2. PICK j \in DOMAIN manifest["raw"] :
                 manifest["raw"][j].ok /\ manifest["raw"][j].content.bars = s.content.bars
          BY <4>1, <5>1 DEF HasRaw
        <5> QED
          BY <5>2 DEF ToSet
      <4> QED
        BY <4>2 DEF DerivedHasItsRaw
    <3> QED
      BY <3>1, <3>2
  <2>3. UpdateIsComplete
    <3>1. clean # << >> => UpdateIsComplete
      BY DEF StoreInv, UpdateInv
    <3> QED
      BY <3>1 DEF UpdateIsComplete
  <2>4. CitedIsRead
    BY DEF StoreInv, ReaderInv
  <2> QED
    BY <2>1, <2>2, <2>3, <2>4 DEF StoreIsSound
<1> QED
  BY <1>1, StoreBegins, StoreStep, PTL DEF StoreSpec

\* A manifest is a prefix of a longer one with the same beginning.
LEMMA PrefixOf ==
    ASSUME NEW S, NEW s \in Seq(S), NEW t \in Seq(S), Len(s) <= Len(t),
           \A i \in 1 .. Len(s) : t[i] = s[i]
    PROVE  IsPrefix(s, t)
<1>1. Len(s) \in Nat /\ Len(t) \in Nat
  BY LenProperties
<1>2. \A i \in 1 .. Len(s) : s[i] \in S /\ t[i] \in S
  BY ElementOfSeq
<1>3. /\ SubSeq(s, 1, Len(s)) \in Seq(S) /\ Len(SubSeq(s, 1, Len(s))) = Len(s)
      /\ \A i \in 1 .. Len(s) : SubSeq(s, 1, Len(s))[i] = s[i]
  BY <1>1, <1>2, SubSeqProperties
<1>4. /\ SubSeq(t, 1, Len(s)) \in Seq(S) /\ Len(SubSeq(t, 1, Len(s))) = Len(s)
      /\ \A i \in 1 .. Len(s) : SubSeq(t, 1, Len(s))[i] = t[i]
  BY <1>1, <1>2, SubSeqProperties
<1>5. SubSeq(s, 1, Len(s)) = SubSeq(t, 1, Len(s))
  BY <1>3, <1>4, SeqEqual
<1> QED
  BY <1>5 DEF IsPrefix

\* Only one action changes manifests; its writer, alone, saves what it found
\* with one more snapshot.
LEMMA ManifestsGrow ==
    ASSUME StoreInv, [StoreNext]_storeVars, ~ met', NEW k \in Series
    PROVE  IsPrefix(manifest[k], manifest'[k])
<1> USE DEF StoreInv
<1>1. manifest[k] \in Seq(Entry) /\ Len(manifest[k]) \in Nat
  BY LenProperties DEF StoreTypeOK
<1>2. CASE manifest' = manifest
  BY <1>1, <1>2, PrefixOf
<1>3. ASSUME NEW w \in Writers, SaveManifest(w) PROVE IsPrefix(manifest[k], manifest'[k])
  <2> DEFINE job   == writer[w].todo[1]
             entry == [content |-> job.content, ok |-> job.ok]
  <2>1. writer[w].at = "save" /\ writer[w].todo # << >> /\ job.key # "actions" /\ ~ met
    BY <1>3 DEF SaveManifest, ControlInv
  <2>2. writer[w].todo \in Seq(Job)
    BY DEF StoreTypeOK, WriterState
  <2>3. Head(writer[w].todo) = job /\ job \in Job
    BY <2>1, <2>2, TailOf
  <2>4. job.key \in Series /\ entry \in Entry
    BY <2>1, <2>3 DEF Job, Entry
  <2>5. writer[w].list = manifest[job.key]
    BY <2>1 DEF AloneInv, Working
  <2>6. manifest' = [manifest EXCEPT ![job.key] = Append(manifest[job.key], entry)]
    BY <1>3, <2>3, <2>5 DEF SaveManifest
  <2> HIDE DEF job, entry
  <2>7. CASE k = job.key
    <3>1. manifest'[k] = Append(manifest[k], entry)
      BY <2>6, <2>7 DEF StoreTypeOK
    <3>2. /\ manifest'[k] \in Seq(Entry) /\ Len(manifest'[k]) = Len(manifest[k]) + 1
          /\ \A i \in 1 .. Len(manifest[k]) : manifest'[k][i] = manifest[k][i]
      BY <3>1, <1>1, <2>4, AppendProperties
    <3> QED
      BY <3>2, <1>1, PrefixOf
  <2>8. CASE k # job.key
    <3>1. manifest'[k] = manifest[k]
      BY <2>6, <2>8 DEF StoreTypeOK
    <3> QED
      BY <3>1, <1>1, PrefixOf
  <2> QED
    BY <2>7, <2>8
<1>4. manifest' = manifest \/ \E w \in Writers : SaveManifest(w)
  BY DEF StoreNext, storeVars, Update, Synthesize, WriteFile, WriteActions, Finish, Crash, Damage, Lookup,
         ReadSnapshot, Cite, Archive, PutFile, DeskStops, Second
<1> QED
  BY <1>2, <1>3, <1>4

(* No snapshot leaves a manifest while updates do not overlap, and no upload *)
(* an import directory, for any number of both (store.py, services/data.py). *)
THEOREM NothingStoredIsLost == StoreSpec => NothingIsLost
<1>1. StoreInv /\ [StoreNext]_storeVars
      => [met' \/ \A k \in Series : IsPrefix(manifest[k], manifest'[k])]_storeVars
  BY ManifestsGrow
<1>2. StoreInv /\ [StoreNext]_storeVars
      => [ \/ desk'.shared
           \/ /\ \A s \in 0..MaxSeconds : desk.archive[s] # 0 => desk'.archive[s] = desk.archive[s]
              /\ \/ desk.file = 0 \/ desk'.file = desk.file
                 \/ \E s \in 0..MaxSeconds : desk'.archive[s] = desk.file ]_storeVars
  <2> SUFFICES ASSUME StoreInv, [StoreNext]_storeVars
               PROVE  \/ desk'.shared
                      \/ /\ \A s \in 0..MaxSeconds : desk.archive[s] # 0 => desk'.archive[s] = desk.archive[s]
                         /\ \/ desk.file = 0 \/ desk'.file = desk.file
                            \/ \E s \in 0..MaxSeconds : desk'.archive[s] = desk.file
    OBVIOUS
  <2>1. (\E v \in Uploads : Archive(v)) \/ PutFile \/ DeskStops \/ Second \/ UNCHANGED desk
    BY DEF StoreNext, storeVars, Update, Synthesize, WriteFile, SaveManifest, WriteActions, Finish, Crash,
           Damage, Lookup, ReadSnapshot, Cite
  <2> QED
    BY <2>1, DeskKeeps DEF StoreInv, StoreTypeOK
<1> QED
  BY <1>1, <1>2, StoreBegins, StoreStep, PTL DEF StoreSpec, NothingIsLost, HistoryIsKept, UploadsAreKept

-----------------------------------------------------------------------------
(* Research: its state. *)

Steps   == {"trials", "append", "judge", "simulate", "govern", "write"}
Points  == UNION Grids
Trial   == [version : Points, data : DataSets, ok : BOOLEAN, purpose : {"grid", "monte_carlo"}]
Verdict == [skill : Int, sharpe : Int, robust : BOOLEAN, sessions : Nat, synthetic : Nat, dsr : Int,
            realOnly : BOOLEAN]
RunState == [at : Steps, grid : Grids, data : DataSets, configured : Lifecycles, alone : BOOLEAN,
             known : SUBSET Trial, counted : Int, due : Int, version : Points \cup {"none"},
             evidence : Verdict, current : Lifecycles]
Line    == [version : Points \cup {"none"}, passed : BOOLEAN, evidence : Verdict,
            to : Lifecycles \cup {"none"}, due : Int, alone : BOOLEAN]

ResearchTypeOK ==
    /\ registry \subseteq Trial /\ IsFiniteSet(registry)
    /\ run \in [Runs -> {Rest} \cup RunState]
    /\ ledger \in Seq(Line)
    /\ lifecycle \in Lifecycles

\* Where the trials a run counts are those of the registry.
Counting == {"judge", "simulate", "govern", "write"}

\* What a run read is still what the files say as long as it runs alone.
Faithful(it, records, entries) ==
    /\ it.at = "append" => IsFiniteSet(it.known)
    /\ it.alone /\ it.at = "append" => it.known = records
    /\ it.alone /\ it.at \in Counting => it.counted >= it.due
    /\ it.at = "simulate" => it.version \in it.grid
    /\ it.at \in {"simulate", "govern", "write"} =>
          it.evidence.dsr = Deflated(it.evidence.skill, it.counted)
    /\ it.alone /\ it.at = "write" =>
          it.current = IF it.configured = "RESEARCH" /\ it.version \in ValidatedVersions(entries)
                       THEN "VALIDATED" ELSE it.configured
RunInv ==
    \A r \in Runs : Active(r) =>
        /\ run[r].alone => \A t \in Runs \ {r} : ~ Active(t)
        /\ Faithful(run[r], registry, ledger)

LedgerInv ==
    /\ DeflationCountsAll /\ ValidationIsEvidence /\ ValidatedMeansPassed
    /\ \A k \in DOMAIN ledger : ledger[k].to = "VALIDATED" => ledger[k].passed

ResearchInv == ResearchTypeOK /\ RunInv /\ LedgerInv

-----------------------------------------------------------------------------
(* Trials and the ledger's last lines. *)

LEMMA OutcomesAre ==
    ASSUME NEW grid \in Grids, NEW data \in DataSets, NEW purpose \in {"grid", "monte_carlo"},
           NEW some \in SUBSET grid
    PROVE  Outcomes(some, data, purpose) \subseteq Trial /\ IsFiniteSet(Outcomes(some, data, purpose))
<1> DEFINE trial(v) == [version |-> v, data |-> data, ok |-> v \notin Invalid, purpose |-> purpose]
           f == [v \in some |-> trial(v)]
<1>1. Outcomes(some, data, purpose) = {trial(v) : v \in some}
  BY DEF Outcomes
<1>2. \A v \in some : v \in Points
  BY DEF Points
<1>3. \A v \in some : trial(v) \in Trial
  BY <1>2 DEF Trial
<1>4. IsFiniteSet(some)
  BY GridsAreFinite, FS_Subset
<1> HIDE DEF trial
<1>5. f \in Surjection(some, {trial(v) : v \in some})
  BY DEF Surjection
<1>6. IsFiniteSet({trial(v) : v \in some})
  BY <1>4, <1>5, FS_Surjection
<1> QED
  BY <1>1, <1>3, <1>6

LEMMA AppendedIs ==
    ASSUME registry \subseteq Trial, IsFiniteSet(registry),
           NEW new \in SUBSET Trial, IsFiniteSet(new), registry' \in Appended(new)
    PROVE  registry' \subseteq Trial /\ IsFiniteSet(registry')
<1>1. PICK lost : registry' = registry \cup (new \ lost)
  BY DEF Appended
<1>2. IsFiniteSet(new \ lost) /\ new \ lost \subseteq Trial
  BY FS_Subset
<1> QED
  BY <1>1, <1>2, FS_Union

LEMMA TrialsAreCounted ==
    ASSUME NEW records, IsFiniteSet(records), NEW data
    PROVE  DistinctTrials(records, data) \in Nat
<1> DEFINE some == {y \in records : y.ok /\ y.data = data /\ y.purpose = "grid"}
           names == {x.version : x \in some}
           f == [x \in some |-> x.version]
<1>1. IsFiniteSet(some)
  BY FS_Subset
<1> HIDE DEF some
<1>2. f \in Surjection(some, names)
  BY DEF Surjection
<1>3. IsFiniteSet(names)
  BY <1>1, <1>2, FS_Surjection
<1>4. Cardinality(names) \in Nat
  BY <1>3, FS_CardinalityType
<1> QED
  BY <1>4 DEF DistinctTrials, some

LEMMA MaxOfTwo ==
    ASSUME NEW a \in Int, NEW b \in Int
    PROVE  Max({a, b}) \in Int /\ Max({a, b}) >= a
<1>1. \E x \in {a, b} : \A y \in {a, b} : x >= y
  OBVIOUS
<1>2. Max({a, b}) \in {a, b} /\ \A y \in {a, b} : Max({a, b}) >= y
  BY <1>1 DEF Max
<1> QED
  BY <1>2

\* The last line that is so is the new one, when the new one is so.
LEMMA NewestLine ==
    ASSUME NEW S, NEW s \in Seq(S), NEW e \in S, NEW some \in SUBSET DOMAIN Append(s, e),
           Len(s) + 1 \in some
    PROVE  Max(some) = Len(s) + 1 /\ Append(s, e)[Max(some)] = e
<1>1. Len(s) \in Nat /\ DOMAIN Append(s, e) = 1 .. Len(s) + 1 /\ Append(s, e)[Len(s) + 1] = e
  BY AppendProperties, AppendOf, LenProperties
<1>2. Len(s) + 1 \in Nat /\ some \in SUBSET (1 .. Len(s) + 1) /\ some # {}
  BY <1>1
<1>3. Max(some) \in some /\ Max(some) >= Len(s) + 1
  BY <1>2, MaxOf
<1> QED
  BY <1>1, <1>2, <1>3

-----------------------------------------------------------------------------
(* The actions of research. *)

\* A run takes a step of its own: nobody beside it may be alone, and what it
\* keeps must agree with the files it leaves.
LEMMA RunMoves ==
    ASSUME ResearchInv, NEW r \in Runs, Active(r), NEW next \in {Rest} \cup RunState,
           run' = [run EXCEPT ![r] = next],
           next \in RunState => /\ next.alone => run[r].alone
                                /\ Faithful(next, registry', ledger')
    PROVE  run' \in [Runs -> {Rest} \cup RunState] /\ RunInv'
<1> USE DEF ResearchInv
<1>1. /\ run' \in [Runs -> {Rest} \cup RunState] /\ run'[r] = next
      /\ \A t \in Runs \ {r} : run'[t] = run[t]
  BY DEF ResearchTypeOK
<1>2. \A t \in Runs : Active(t)' => Active(t)
  BY <1>1 DEF Active
<1>3. ASSUME NEW t \in Runs, Active(t)'
      PROVE  /\ run'[t].alone => \A u \in Runs \ {t} : ~ Active(u)'
             /\ Faithful(run'[t], registry', ledger')
  <2>1. CASE t = r
    <3>1. next # Rest
      BY <1>1, <1>3, <2>1 DEF Active, Rest
    <3> QED
      BY <1>1, <1>2, <2>1, <3>1 DEF RunInv
  <2>2. CASE t # r
    <3>1. ~ run[t].alone /\ Faithful(run[t], registry, ledger) /\ run'[t] = run[t]
      BY <1>1, <1>2, <1>3, <2>2 DEF RunInv
    <3> QED
      BY <3>1 DEF Faithful
  <2> QED
    BY <2>1, <2>2
<1> QED
  BY <1>1, <1>3 DEF RunInv

\* Who is active has a state of its own.
LEMMA ActiveRuns ==
    ASSUME ResearchTypeOK, NEW r \in Runs, Active(r)
    PROVE  run[r] \in RunState
BY DEF ResearchTypeOK, Active, Rest

LEMMA LedgerStays ==
    ASSUME LedgerInv, UNCHANGED << ledger, masked >>
    PROVE  LedgerInv'
BY DEF LedgerInv, DeflationCountsAll, ValidationIsEvidence, ValidatedMeansPassed

LEMMA StartKeeps ==
    ASSUME ResearchInv, NEW r \in Runs, NEW g \in Grids, NEW d \in DataSets, Start(r, g, d)
    PROVE  ResearchInv'
<1> USE DEF ResearchInv
<1> DEFINE quiet == {t \in Runs \ {r} : Active(t)} = {}
           new == [at |-> "trials", grid |-> g, data |-> d, configured |-> lifecycle, alone |-> quiet,
                   known |-> {}, counted |-> 0, due |-> 0, version |-> "none",
                   evidence |-> NoEvidence, current |-> lifecycle]
<1>1. NoEvidence \in Verdict
  BY DEF NoEvidence, Verdict, NaN
<1>2. quiet \in BOOLEAN /\ (quiet <=> \A t \in Runs \ {r} : ~ Active(t))
  OBVIOUS
<1> HIDE DEF quiet
<1>3. new \in RunState
  BY <1>1, <1>2 DEF RunState, Steps, ResearchTypeOK
<1>4. new.at = "trials" /\ (new.alone <=> quiet)
  OBVIOUS
<1>5. \A t \in Runs : run[t] \in RunState =>
         LET it == [run[t] EXCEPT !.alone = FALSE]
         IN  /\ it \in RunState /\ ~ it.alone /\ it.at = run[t].at /\ it.counted = run[t].counted
             /\ it.evidence = run[t].evidence /\ it.version = run[t].version
             /\ it.grid = run[t].grid /\ it.known = run[t].known
  BY DEF RunState
<1>6. /\ run'[r] = new /\ ~ Active(r)
      /\ \A t \in Runs \ {r} : run'[t] = IF Active(t) THEN [run[t] EXCEPT !.alone = FALSE] ELSE run[t]
      /\ DOMAIN run' = Runs
      /\ UNCHANGED << registry, torn, ledger, lifecycle, masked, sample >>
  BY DEF Start, quiet
<1> HIDE DEF new
<1>7. \A t \in Runs \ {r} :
         /\ run'[t] \in {Rest} \cup RunState
         /\ Active(t)' <=> Active(t)
         /\ Active(t) => ~ run'[t].alone /\ run'[t].at = run[t].at /\ run'[t].counted = run[t].counted
                         /\ run'[t].evidence = run[t].evidence /\ run'[t].version = run[t].version
                         /\ run'[t].grid = run[t].grid /\ run'[t].known = run[t].known
  <2> SUFFICES ASSUME NEW t \in Runs \ {r}
               PROVE  /\ run'[t] \in {Rest} \cup RunState
                      /\ Active(t)' <=> Active(t)
                      /\ Active(t) => ~ run'[t].alone /\ run'[t].at = run[t].at
                                      /\ run'[t].counted = run[t].counted
                                      /\ run'[t].evidence = run[t].evidence
                                      /\ run'[t].version = run[t].version
                                      /\ run'[t].grid = run[t].grid /\ run'[t].known = run[t].known
    OBVIOUS
  <2>1. CASE Active(t)
    <3> DEFINE it == [run[t] EXCEPT !.alone = FALSE]
    <3>1. run'[t] = it /\ run[t] \in RunState
      BY <2>1, <1>6, ActiveRuns
    <3>2. /\ it \in RunState /\ ~ it.alone /\ it.at = run[t].at /\ it.counted = run[t].counted
          /\ it.evidence = run[t].evidence /\ it.version = run[t].version
          /\ it.grid = run[t].grid /\ it.known = run[t].known
      BY <1>5, <3>1
    <3> HIDE DEF it
    <3>3. Active(t)' <=> Active(t)
      BY <3>1, <3>2 DEF Active
    <3> QED
      BY <2>1, <3>1, <3>2, <3>3
  <2>2. CASE ~ Active(t)
    BY <2>2, <1>6 DEF Active, ResearchTypeOK
  <2> QED
    BY <2>1, <2>2
<1>8. run' \in [Runs -> {Rest} \cup RunState]
  <2>1. run' = [t \in Runs |-> run'[t]]
    BY DEF Start
  <2> QED
    BY <2>1, <1>3, <1>6, <1>7
<1>9. RunInv'
  <2> SUFFICES ASSUME NEW t \in Runs, Active(t)'
               PROVE  /\ run'[t].alone => \A u \in Runs \ {t} : ~ Active(u)'
                      /\ Faithful(run'[t], registry, ledger)
    BY <1>6 DEF RunInv
  <2>1. CASE t = r
    BY <2>1, <1>2, <1>4, <1>6, <1>7 DEF Faithful, Counting
  <2>2. CASE t # r
    BY <2>2, <1>7 DEF RunInv, Faithful
  <2> QED
    BY <2>1, <2>2
<1> QED
  BY <1>6, <1>8, <1>9, LedgerStays DEF ResearchTypeOK

\* Steps of a run that leave the ledger alone.
LEMMA RunKeeps ==
    ASSUME ResearchInv, NEW r \in Runs,
           LoadRegistry(r) \/ AppendTrials(r) \/ Simulate(r) \/ ReadLedger(r) \/ Killed(r)
             \/ (\E w \in SUBSET Outcomes(run[r].grid, run[r].data, "grid") : TearRegistry(r, w) /\ Active(r))
             \/ (\E v \in run[r].grid, e \in Evidences, b \in BOOLEAN : Judge(r, v, e, b) /\ Active(r))
    PROVE  ResearchInv'
<1> USE DEF ResearchInv
<1>1. Active(r) /\ run[r] \in RunState
  BY ActiveRuns DEF LoadRegistry, AppendTrials, Simulate, ReadLedger, Killed, TearRegistry, Judge, Active
<1>2. UNCHANGED << ledger, lifecycle, masked >>
  BY DEF LoadRegistry, AppendTrials, Simulate, ReadLedger, Killed, TearRegistry, Judge
<1>3. Faithful(run[r], registry, ledger)
  BY <1>1 DEF RunInv
<1>4. /\ run[r].grid \in Grids /\ run[r].data \in DataSets /\ run[r].configured \in Lifecycles
      /\ run[r].version \in Points \cup {"none"} /\ run[r].counted \in Int /\ run[r].evidence \in Verdict
  BY <1>1 DEF RunState
<1>5. Outcomes(run[r].grid, run[r].data, "grid") \subseteq Trial
      /\ IsFiniteSet(Outcomes(run[r].grid, run[r].data, "grid"))
  BY <1>4, OutcomesAre
<1>6. ASSUME run' \in [Runs -> {Rest} \cup RunState], RunInv', registry' \subseteq Trial, IsFiniteSet(registry')
      PROVE  ResearchInv'
  BY <1>2, <1>6, LedgerStays DEF ResearchTypeOK
<1>7. registry \subseteq Trial /\ IsFiniteSet(registry)
  BY DEF ResearchTypeOK
<1>8. ASSUME UNCHANGED registry, run' = [run EXCEPT ![r] = Rest] PROVE ResearchInv'
  <2>1. Rest \notin RunState
    BY DEF Rest, RunState, Steps
  <2> QED
    BY <2>1, <1>1, <1>6, <1>7, <1>8, RunMoves
<1>9. CASE LoadRegistry(r)
  <2>1. CASE torn
    BY <1>8, <1>9, <2>1 DEF LoadRegistry
  <2>2. CASE ~ torn
    <3> DEFINE next == [run[r] EXCEPT !.at = "append", !.known = registry]
    <3>1. /\ next \in RunState /\ (next.alone <=> run[r].alone) /\ next.at = "append" /\ next.known = registry
      BY <1>1, <1>7 DEF RunState, Steps
    <3>2. run' = [run EXCEPT ![r] = next] /\ registry' = registry
      BY <1>9, <2>2 DEF LoadRegistry
    <3> HIDE DEF next
    <3>3. Faithful(next, registry, ledger)
      BY <3>1, <1>7 DEF Faithful, Counting
    <3> QED
      BY <3>1, <3>2, <3>3, <1>1, <1>2, <1>6, <1>7, RunMoves
  <2> QED
    BY <2>1, <2>2
<1>10. CASE AppendTrials(r)
  <2> DEFINE new  == Outcomes(run[r].grid, run[r].data, "grid")
             due  == DistinctTrials(registry \cup new, run[r].data)
             next == [run[r] EXCEPT !.at = "judge", !.counted = Counted(r), !.due = due]
  <2>1. run[r].at = "append" /\ registry' \in Appended(new)
    BY <1>10 DEF AppendTrials
  <2>2. /\ registry' \subseteq Trial /\ IsFiniteSet(registry')
        /\ IsFiniteSet(registry \cup new)
    BY <2>1, <1>5, <1>7, AppendedIs, FS_Union
  <2>3. run' = [run EXCEPT ![r] = Rest] \/ run' = [run EXCEPT ![r] = next]
    BY <1>10 DEF AppendTrials
  <2>4. CASE run' = [run EXCEPT ![r] = Rest]
    <3>1. Rest \notin RunState
      BY DEF Rest, RunState, Steps
    <3> QED
      BY <3>1, <2>2, <2>4, <1>1, <1>6, RunMoves
  <2>5. CASE run' = [run EXCEPT ![r] = next]
    <3>1. due \in Nat
      BY <2>1, <2>2, TrialsAreCounted
    <3>2. IsFiniteSet(run[r].grid \ Invalid) /\ Cardinality(run[r].grid \ Invalid) \in Nat
      BY <1>4, GridsAreFinite, FS_Subset, FS_CardinalityType
    <3>3. IsFiniteSet(run[r].known \cup new)
      BY <2>1, <1>3, <1>5, FS_Union DEF Faithful
    <3>4. DistinctTrials(run[r].known \cup new, run[r].data) \in Nat
      BY <3>3, TrialsAreCounted
    <3>5. /\ Counted(r) \in Int
          /\ Counted(r) >= DistinctTrials(run[r].known \cup new, run[r].data)
      <4> DEFINE a == DistinctTrials(run[r].known \cup new, run[r].data)
                 b == Cardinality(run[r].grid \ Invalid)
      <4>1. Counted(r) = Max({a, b}) /\ a \in Int /\ b \in Int
        BY <3>2, <3>4 DEF Counted
      <4> HIDE DEF a, b
      <4>2. Max({a, b}) \in Int /\ Max({a, b}) >= a
        BY <4>1, MaxOfTwo
      <4> QED
        BY <4>1, <4>2 DEF a
    <3>6. run[r].alone => run[r].known = registry
      BY <2>1, <1>3 DEF Faithful
    <3> HIDE DEF due, new
    <3>7. due \in Int /\ (run[r].alone => Counted(r) >= due)
      BY <3>1, <3>5, <3>6 DEF due
    <3>8. /\ next \in RunState /\ (next.alone <=> run[r].alone) /\ next.at = "judge"
          /\ next.counted = Counted(r) /\ next.due = due
      BY <1>1, <3>5, <3>7 DEF RunState, Steps
    <3> HIDE DEF next
    <3>9. Faithful(next, registry', ledger')
      BY <3>7, <3>8 DEF Faithful
    <3> QED
      BY <2>2, <2>5, <3>8, <3>9, <1>1, <1>6, RunMoves
  <2> QED
    BY <2>3, <2>4, <2>5
<1>11. ASSUME NEW w \in SUBSET Outcomes(run[r].grid, run[r].data, "grid"), TearRegistry(r, w)
       PROVE  ResearchInv'
  <2>1. registry' = registry \cup w /\ run' = [run EXCEPT ![r] = Rest]
    BY <1>11 DEF TearRegistry
  <2>2. IsFiniteSet(w)
    BY <1>5, FS_Subset
  <2>3. registry' \subseteq Trial /\ IsFiniteSet(registry')
    BY <2>1, <2>2, <1>5, <1>7, FS_Union
  <2>4. Rest \notin RunState
    BY DEF Rest, RunState, Steps
  <2> QED
    BY <2>1, <2>3, <2>4, <1>1, <1>6, RunMoves
<1>12. ASSUME NEW v \in run[r].grid, NEW e \in Evidences, NEW b \in BOOLEAN, Judge(r, v, e, b)
       PROVE  ResearchInv'
  <2> DEFINE dsr  == Deflated(e.skill, run[r].counted)
             next == [run[r] EXCEPT !.at = "simulate", !.version = v, !.evidence = Evidence(e, dsr, b)]
  <2>1. /\ run[r].at = "judge" /\ run' = [run EXCEPT ![r] = next] /\ registry' = registry
    BY <1>12 DEF Judge
  <2>2. v \in Points
    BY <1>4 DEF Points
  <2>3. e.skill \in Int /\ dsr \in Int
    BY <1>4, EvidencesArePossible DEF Deflated, NaN
  <2> HIDE DEF dsr
  <2>4. /\ Evidence(e, dsr, b) \in Verdict /\ Evidence(e, dsr, b).dsr = dsr /\ Evidence(e, dsr, b).skill = e.skill
    BY <2>3, EvidencesArePossible DEF Evidence, Verdict
  <2>5. /\ next \in RunState /\ (next.alone <=> run[r].alone) /\ next.at = "simulate"
        /\ next.counted = run[r].counted /\ next.due = run[r].due /\ next.evidence = Evidence(e, dsr, b)
        /\ next.version = v /\ next.grid = run[r].grid
    BY <1>1, <2>2, <2>4 DEF RunState, Steps
  <2> HIDE DEF next
  <2>6. Faithful(next, registry', ledger')
    BY <2>1, <2>4, <2>5, <1>3 DEF Faithful, Counting, dsr
  <2> QED
    BY <2>1, <2>5, <2>6, <1>1, <1>6, <1>7, RunMoves
<1>13. CASE Simulate(r)
  <2> DEFINE new  == Outcomes({run[r].version}, run[r].data, "monte_carlo")
             next == [run[r] EXCEPT !.at = "govern"]
  <2>1. /\ run[r].at = "simulate" /\ registry' \in Appended(new)
        /\ run' = [run EXCEPT ![r] = next]
    BY <1>13 DEF Simulate
  <2>2. run[r].version \in run[r].grid
    BY <2>1, <1>3 DEF Faithful
  <2>3. new \subseteq Trial /\ IsFiniteSet(new)
    BY <2>2, <1>4, OutcomesAre
  <2>4. registry' \subseteq Trial /\ IsFiniteSet(registry')
    BY <2>1, <2>3, <1>7, AppendedIs
  <2>5. /\ next \in RunState /\ (next.alone <=> run[r].alone) /\ next.at = "govern"
        /\ next.counted = run[r].counted /\ next.due = run[r].due /\ next.evidence = run[r].evidence
    BY <1>1 DEF RunState, Steps
  <2> HIDE DEF next
  <2>6. Faithful(next, registry', ledger')
    BY <2>1, <2>5, <1>3 DEF Faithful, Counting
  <2> QED
    BY <2>1, <2>4, <2>5, <2>6, <1>1, <1>6, RunMoves
<1>14. CASE ReadLedger(r)
  <2> DEFINE now  == IF run[r].configured = "RESEARCH" /\ run[r].version \in ValidatedVersions(ledger)
                     THEN "VALIDATED" ELSE run[r].configured
             next == [run[r] EXCEPT !.at = "write", !.current = now]
  <2>1. run[r].at = "govern" /\ registry' = registry /\ run' = [run EXCEPT ![r] = next]
    BY <1>14 DEF ReadLedger
  <2>2. now \in Lifecycles
    BY <1>4 DEF Lifecycles
  <2> HIDE DEF now
  <2>3. /\ next \in RunState /\ (next.alone <=> run[r].alone) /\ next.at = "write"
        /\ next.counted = run[r].counted /\ next.due = run[r].due /\ next.evidence = run[r].evidence
        /\ next.version = run[r].version /\ next.configured = run[r].configured /\ next.current = now
    BY <1>1, <2>2 DEF RunState, Steps
  <2> HIDE DEF next
  <2>4. Faithful(next, registry', ledger')
    BY <2>1, <2>3, <1>2, <1>3 DEF Faithful, Counting, now
  <2> QED
    BY <2>1, <2>3, <2>4, <1>1, <1>6, <1>7, RunMoves
<1>15. CASE Killed(r)
  BY <1>8, <1>15 DEF Killed
<1> QED
  BY <1>9, <1>10, <1>11, <1>12, <1>13, <1>14, <1>15

\* Only what passed validates, and what passed is defined, has sessions out of
\* sample, as real as the configuration asks, and beats the trials it was deflated by.
LEMMA PassedIs ==
    ASSUME NEW e \in Verdict, NEW n \in Int, e.dsr = Deflated(e.skill, n)
    PROVE  /\ Passed(e) \in BOOLEAN
           /\ Passed(e) => /\ e.skill > n /\ e.skill # NaN /\ e.dsr # NaN /\ e.sharpe # NaN
                           /\ e.sessions > 0 /\ (e.realOnly => e.synthetic = 0)
<1>1. Passed(e) \in BOOLEAN
  BY DEF Passed
<1>2. ASSUME Passed(e)
      PROVE  /\ e.skill > n /\ e.skill # NaN /\ e.dsr # NaN /\ e.sharpe # NaN
             /\ e.sessions > 0 /\ (e.realOnly => e.synthetic = 0)
  <2>1. DOMAIN Gates(e) = 1..5
    BY DEF Gates
  <2>2. Gates(e)[1] /\ Gates(e)[2] /\ Gates(e)[4] /\ Gates(e)[5]
    BY <1>2, <2>1 DEF Passed
  <2>3. AtLeast(e.dsr, 1) /\ AtLeast(e.sharpe, 1) /\ e.sessions >= 1 /\ (e.realOnly => e.synthetic = 0)
    BY <2>2 DEF Gates
  <2> QED
    BY <2>3 DEF AtLeast, Deflated, NaN, Verdict
<1> QED
  BY <1>1, <1>2

\* A verdict is appended.
LEMMA LedgerKeeps ==
    ASSUME ResearchInv, NEW r \in Runs, AppendLedger(r)
    PROVE  ResearchInv'
<1> USE DEF ResearchInv
<1> DEFINE it     == run[r]
           passed == Passed(it.evidence)
           to     == ProposedTransition(it.current, passed)
           line   == [version |-> it.version, passed |-> passed, evidence |-> it.evidence,
                      to |-> to, due |-> it.due, alone |-> it.alone]
           longer == Append(ledger, line)
           n      == Len(ledger)
<1>1. Active(r) /\ it \in RunState /\ it.at = "write"
  BY ActiveRuns DEF AppendLedger, Active
<1>2. Faithful(it, registry, ledger)
  BY <1>1 DEF RunInv
<1>3. /\ it.evidence \in Verdict /\ it.counted \in Int /\ it.due \in Int /\ it.alone \in BOOLEAN
      /\ it.version \in Points \cup {"none"} /\ it.current \in Lifecycles
      /\ it.evidence.dsr = Deflated(it.evidence.skill, it.counted)
      /\ it.alone => it.counted >= it.due
      /\ it.alone => it.current = IF it.configured = "RESEARCH" /\ it.version \in ValidatedVersions(ledger)
                                  THEN "VALIDATED" ELSE it.configured
  BY <1>1, <1>2 DEF RunState, Faithful, Counting
<1>4. /\ passed \in BOOLEAN
      /\ passed => /\ it.evidence.skill > it.counted /\ it.evidence.skill # NaN
                   /\ it.evidence.dsr # NaN /\ it.evidence.sharpe # NaN
                   /\ it.evidence.sessions > 0
                   /\ it.evidence.realOnly => it.evidence.synthetic = 0
  BY <1>3, PassedIs
<1>5. /\ to \in Lifecycles \cup {"none"}
      /\ to = "VALIDATED" => passed
      /\ ~ passed /\ to = "none" => it.current # "VALIDATED"
  BY DEF ProposedTransition, Lifecycles
<1>6. /\ ledger' = longer /\ run' = [run EXCEPT ![r] = Rest]
      /\ masked' = (IF it.current \in {"RESEARCH", "VALIDATED"} THEN masked
                    ELSE masked \cup {it.version})
      /\ UNCHANGED << registry, lifecycle >>
  BY DEF AppendLedger
<1> HIDE DEF passed, to
<1>7. /\ line \in Line /\ line.version = it.version /\ line.passed = passed /\ line.evidence = it.evidence
      /\ line.to = to /\ line.due = it.due /\ (line.alone <=> it.alone)
  BY <1>3, <1>4, <1>5 DEF Line
<1> HIDE DEF line, it
<1>8. ledger \in Seq(Line) /\ n \in Nat /\ DOMAIN ledger = 1 .. n
  BY LenProperties DEF ResearchTypeOK
<1>9. /\ longer \in Seq(Line) /\ DOMAIN longer = 1 .. n + 1 /\ longer[n + 1] = line
      /\ \A k \in 1 .. n : longer[k] = ledger[k]
  BY <1>7, <1>8, AppendProperties, LenProperties
<1>10. \A k \in 1 .. n + 1 : k \in 1 .. n \/ k = n + 1
  BY <1>8
<1> HIDE DEF longer, n
<1>11. ResearchTypeOK' /\ RunInv'
  <2>1. Rest \notin RunState
    BY DEF Rest, RunState, Steps
  <2>2. run' \in [Runs -> {Rest} \cup RunState] /\ RunInv'
    BY <2>1, <1>1, <1>6, RunMoves
  <2> QED
    BY <2>2, <1>6, <1>9 DEF ResearchTypeOK
<1>12. /\ \A k \in DOMAIN longer : longer[k].to = "VALIDATED" => longer[k].passed
       /\ \A k \in DOMAIN longer :
             longer[k].to = "VALIDATED" => longer[k].evidence.skill > longer[k].due \/ ~ longer[k].alone
       /\ \A k \in DOMAIN longer : longer[k].to = "VALIDATED" =>
             /\ {longer[k].evidence[f] : f \in {"skill", "sharpe", "dsr"}} \cap {NaN} = {}
             /\ longer[k].evidence.sessions > 0
             /\ longer[k].evidence.realOnly => longer[k].evidence.synthetic = 0
  <2> SUFFICES ASSUME NEW k \in DOMAIN longer, longer[k].to = "VALIDATED"
               PROVE  /\ longer[k].passed
                      /\ longer[k].evidence.skill > longer[k].due \/ ~ longer[k].alone
                      /\ {longer[k].evidence[f] : f \in {"skill", "sharpe", "dsr"}} \cap {NaN} = {}
                      /\ longer[k].evidence.sessions > 0
                      /\ longer[k].evidence.realOnly => longer[k].evidence.synthetic = 0
    OBVIOUS
  <2>1. CASE k \in 1 .. n
    BY <2>1, <1>8, <1>9 DEF LedgerInv, DeflationCountsAll, ValidationIsEvidence
  <2>2. CASE k = n + 1
    <3>1. passed /\ longer[k] = line
      BY <2>2, <1>5, <1>7, <1>9
    <3>2. it.alone => it.evidence.skill > it.due
      <4>1. it.evidence.skill \in Int
        BY <1>3 DEF Verdict
      <4> QED
        BY <4>1, <3>1, <1>3, <1>4
    <3> QED
      BY <3>1, <3>2, <1>4, <1>7
  <2> QED
    BY <2>1, <2>2, <1>9, <1>10
<1>13. ASSUME NEW v \in ValidatedVersions(longer)
       PROVE  \/ v \in masked'
              \/ \E x \in ToSet(longer) : x.version = v /\ ~ x.alone
              \/ longer[Max({k \in DOMAIN longer : longer[k].version = v})].passed
  <2> DEFINE moves(entries) == {k \in DOMAIN entries : entries[k].to # "none"}
             of(entries) == {k \in DOMAIN entries : entries[k].version = v}
  <2>1. /\ moves(longer) # {} /\ longer[Max(moves(longer))].to = "VALIDATED"
        /\ v = longer[Max(moves(longer))].version
    BY <1>13 DEF ValidatedVersions
  <2>2. ASSUME it.version = v PROVE longer[Max(of(longer))] = line
    <3>1. n + 1 \in of(longer) /\ of(longer) \in SUBSET DOMAIN longer
      BY <2>2, <1>7, <1>8, <1>9
    <3> QED
      BY <3>1, <1>7, <1>8, NewestLine DEF longer, n
  <2>3. CASE to # "none"
    <3>1. n + 1 \in moves(longer) /\ moves(longer) \in SUBSET DOMAIN longer
      BY <2>3, <1>7, <1>8, <1>9
    <3>2. longer[Max(moves(longer))] = line
      BY <3>1, <1>7, <1>8, NewestLine DEF longer, n
    <3>3. it.version = v /\ passed
      BY <2>1, <3>2, <1>5, <1>7
    <3> QED
      BY <2>2, <3>3, <1>7
  <2>4. CASE to = "none"
    <3>1. moves(longer) = moves(ledger)
      BY <2>4, <1>7, <1>8, <1>9, <1>10
    <3>2. moves(ledger) \in SUBSET (1 .. n) /\ moves(ledger) # {}
      BY <2>1, <3>1, <1>8
    <3>3. Max(moves(ledger)) \in 1 .. n
      BY <3>2, <1>8, MaxOf
    <3>4. v \in ValidatedVersions(ledger)
      BY <2>1, <3>1, <3>2, <3>3, <1>9 DEF ValidatedVersions
    <3>5. \/ v \in masked
          \/ \E x \in ToSet(ledger) : x.version = v /\ ~ x.alone
          \/ ledger[Max(of(ledger))].passed
      BY <3>4 DEF LedgerInv, ValidatedMeansPassed
    <3>6. masked \subseteq masked'
      BY <1>6
    <3>7. ToSet(ledger) \subseteq ToSet(longer) /\ line \in ToSet(longer)
      BY <1>8, <1>9 DEF ToSet
    <3>8. CASE it.version # v
      <4>1. of(longer) = of(ledger)
        BY <3>8, <1>7, <1>8, <1>9, <1>10
      <4>2. Max(moves(ledger)) \in of(ledger)
        BY <2>1, <3>1, <3>3, <1>8, <1>9
      <4>3. of(ledger) \in SUBSET (1 .. n)
        BY <1>8
      <4>4. Max(of(ledger)) \in 1 .. n
        BY <4>2, <4>3, <1>8, MaxOf
      <4>5. longer[Max(of(longer))] = ledger[Max(of(ledger))]
        BY <4>1, <4>4, <1>9
      <4> QED
        BY <4>5, <3>5, <3>6, <3>7
    <3>9. CASE it.version = v
      <4>1. CASE passed
        BY <4>1, <2>2, <3>9, <1>7
      <4>2. CASE ~ it.alone
        BY <4>2, <3>7, <3>9, <1>7
      <4>3. CASE ~ passed /\ it.alone
        <5>1. it.current # "VALIDATED"
          BY <4>3, <2>4, <1>5
        <5>2. it.current = it.configured /\ it.current \notin {"RESEARCH", "VALIDATED"}
          BY <5>1, <4>3, <3>4, <3>9, <1>3
        <5> QED
          BY <5>2, <3>9, <1>6
      <4> QED
        BY <4>1, <4>2, <4>3
    <3> QED
      BY <3>8, <3>9
  <2> QED
    BY <2>3, <2>4
<1>14. LedgerInv'
  BY <1>6, <1>12, <1>13 DEF LedgerInv, DeflationCountsAll, ValidationIsEvidence, ValidatedMeansPassed
<1> QED
  BY <1>11, <1>14

LEMMA ResearchStep ==
    ASSUME ResearchInv, [ResearchNext]_researchVars
    PROVE  ResearchInv'
<1>1. ASSUME NEW r \in Runs, NEW g \in Grids, NEW d \in DataSets, Start(r, g, d) PROVE ResearchInv'
  BY <1>1, StartKeeps
<1>2. ASSUME NEW r \in Runs, LoadRegistry(r) \/ AppendTrials(r) \/ Simulate(r) \/ ReadLedger(r) \/ Killed(r)
      PROVE  ResearchInv'
  BY <1>2, RunKeeps
<1>3. ASSUME NEW r \in Runs, AppendLedger(r) PROVE ResearchInv'
  BY <1>3, LedgerKeeps
<1>4. ASSUME NEW r \in Runs, Active(r),
             NEW w \in SUBSET Outcomes(run[r].grid, run[r].data, "grid"), TearRegistry(r, w)
      PROVE  ResearchInv'
  BY <1>4, RunKeeps
<1>5. ASSUME NEW r \in Runs, Active(r), NEW v \in run[r].grid, NEW e \in Evidences, NEW b \in BOOLEAN,
             Judge(r, v, e, b)
      PROVE  ResearchInv'
  BY <1>5, RunKeeps
<1>6. CASE (\E l \in Lifecycles : Declare(l)) \/ Restore \/ UNCHANGED researchVars
  <2>1. UNCHANGED << registry, run, ledger, masked >> /\ lifecycle' \in Lifecycles
    BY <1>6 DEF Declare, Restore, researchVars, ResearchInv, ResearchTypeOK
  <2>2. RunInv'
    BY <2>1 DEF ResearchInv, RunInv, Active
  <2> QED
    BY <2>1, <2>2, LedgerStays DEF ResearchInv, ResearchTypeOK
<1> QED
  BY <1>1, <1>2, <1>3, <1>4, <1>5, <1>6 DEF ResearchNext

(* What the software calls VALIDATED passed when it was last judged, on      *)
(* statistics that are defined, with out-of-sample sessions, none of them    *)
(* synthetic where the configuration asks for that, and beating all the      *)
(* trials recorded on its data: for any versions, grids, evidence and number *)
(* of runs (pipeline.py, trials.py, scorecard.py).                           *)
THEOREM ValidationHolds == ResearchSpec => []EvidenceCounts
<1>1. ResearchInit => ResearchInv
  <2> SUFFICES ASSUME ResearchInit PROVE ResearchInv
    OBVIOUS
  <2> USE DEF ResearchInit
  <2>1. << >> \in Seq(Line) /\ DOMAIN << >> = {} /\ IsFiniteSet({})
    BY FS_EmptySet
  <2>2. ResearchTypeOK
    BY <2>1 DEF ResearchTypeOK, Lifecycles
  <2>3. RunInv
    BY DEF RunInv, Active, Rest
  <2>4. ValidatedVersions(ledger) = {}
    BY <2>1 DEF ValidatedVersions
  <2>5. LedgerInv
    BY <2>1, <2>4 DEF LedgerInv, DeflationCountsAll, ValidationIsEvidence, ValidatedMeansPassed
  <2> QED
    BY <2>2, <2>3, <2>5 DEF ResearchInv
<1>2. ResearchInv => EvidenceCounts
  BY DEF ResearchInv, LedgerInv, EvidenceCounts
<1> QED
  BY <1>1, <1>2, ResearchStep, PTL DEF ResearchSpec

-----------------------------------------------------------------------------
(* Samples of research: windows and corrections. *)

\* A set of natural numbers has a smallest one.
LEMMA MinOf ==
    ASSUME NEW S \in SUBSET Nat, S # {}
    PROVE  Min(S) \in S /\ \A y \in S : Min(S) <= y
<1>1. \E m \in S : \A k \in S : << k, m >> \notin OpToRel(<, Nat)
  BY WFMin, NatLessThanWellFounded
<1>2. \A k, m \in Nat : << k, m >> \notin OpToRel(<, Nat) => m <= k
  BY DEF OpToRel
<1>3. \E m \in S : \A k \in S : m <= k
  BY <1>1, <1>2
<1> QED
  BY <1>3 DEF Min

LEMMA MinOfTwo ==
    ASSUME NEW a \in Nat, NEW b \in Nat
    PROVE  Min({a, b}) = (IF a <= b THEN a ELSE b)
<1>1. {a, b} \in SUBSET Nat /\ {a, b} # {}
  OBVIOUS
<1>2. Min({a, b}) \in {a, b} /\ Min({a, b}) <= a /\ Min({a, b}) <= b
  BY <1>1, MinOf
<1> QED
  BY <1>2

From(s, k)  == s.train + s.validate + k * s.step
WholeFold(s, k) == From(s, k) < s.rows
                /\ Min({From(s, k) + s.test, s.rows}) - From(s, k) >= Min({s.test, MinPartialTest})

LEMMA SampleIs ==
    ASSUME NEW s \in Samples
    PROVE  /\ s.rows \in Nat /\ s.train \in Nat \ {0} /\ s.validate \in Nat \ {0}
           /\ s.test \in Nat \ {0} /\ s.step \in Nat \ {0} /\ s.anchored \in BOOLEAN
           /\ s.p \in Seq(0 .. Scale) /\ s.q \in 0 .. Scale
           /\ s.step >= s.test /\ Len(s.p) <= 3
BY SamplesAreConfigured

\* Later folds begin a step later at least.
LEMMA FromGrows ==
    ASSUME NEW s \in Samples, NEW j \in Nat, NEW k \in Nat
    PROVE  /\ From(s, k) \in Nat /\ From(s, k) >= s.train + s.validate
           /\ j < k => From(s, j) + s.step <= From(s, k)
<1>1. s.train \in Nat /\ s.validate \in Nat /\ s.step \in Nat
  BY SampleIs
<1>2. k * s.step \in Nat /\ j * s.step \in Nat
  BY <1>1
<1>3. ASSUME j < k PROVE j * s.step + s.step <= k * s.step
  <2>1. PICK d \in Nat : k = j + 1 + d
    <3>1. k - j - 1 \in Nat /\ k = j + 1 + (k - j - 1)
      BY <1>3
    <3> QED
      BY <3>1
  <2>2. k * s.step = j * s.step + s.step + d * s.step /\ d * s.step \in Nat
    BY <1>1, <2>1
  <2> QED
    BY <1>1, <1>2, <2>2
<1> QED
  BY <1>1, <1>2, <1>3 DEF From

\* Every fold of a sample has a whole test, or a partial one that counts.
LEMMA WindowsAre ==
    ASSUME NEW s \in Samples
    PROVE  /\ DOMAIN Windows(s) \subseteq Nat \ {0}
           /\ \E n \in Nat : DOMAIN Windows(s) = 1 .. n
           /\ \A k \in DOMAIN Windows(s) :
                 Windows(s)[k] = FoldAt(s, From(s, k - 1)) /\ WholeFold(s, k - 1)
<1> DEFINE D == {k \in 0 .. s.rows : \A j \in 0 .. k : WholeFold(s, j)}
           count == Cardinality(D)
<1>1. Windows(s) = [k \in 1 .. count |-> FoldAt(s, From(s, k - 1))]
  BY DEF Windows, From, WholeFold
<1>2. s.rows \in Nat
  BY SampleIs
<1>3. IsFiniteSet(D) /\ count \in Nat
  <2>1. IsFiniteSet(0 .. s.rows) /\ D \subseteq 0 .. s.rows
    BY <1>2, FS_Interval
  <2> HIDE DEF D
  <2> QED
    BY <2>1, FS_Subset, FS_CardinalityType
<1>4. ASSUME NEW k \in 1 .. count PROVE WholeFold(s, k - 1)
  <2>1. k \in Nat \ {0} /\ k <= count
    BY <1>3
  <2>2. CASE k - 1 \in D
    BY <2>1, <2>2
  <2>3. CASE k - 1 \notin D
    <3>1. D \subseteq 0 .. k - 2
      <4> SUFFICES ASSUME NEW d \in D, d >= k - 1 PROVE FALSE
        BY <1>2, <2>1
      <4>1. k - 1 \in 0 .. s.rows /\ 0 .. (k - 1) \subseteq 0 .. d
        BY <1>2, <2>1
      <4> QED
        BY <2>3, <4>1
    <3>2. Cardinality(0 .. k - 2) = k - 1 /\ IsFiniteSet(0 .. k - 2)
      <4>1. CASE k >= 2
        BY <2>1, <4>1, FS_Interval
      <4>2. CASE k = 1
        <5>1. 0 .. k - 2 = {}
          BY <4>2
        <5> QED
          BY <4>2, <5>1, FS_EmptySet
      <4> QED
        BY <2>1, <4>1, <4>2
    <3> HIDE DEF D
    <3>3. count <= k - 1
      BY <3>1, <3>2, FS_Subset
    <3> QED
      BY <1>3, <2>1, <3>3
  <2> QED
    BY <2>2, <2>3
<1> HIDE DEF count
<1>5. DOMAIN Windows(s) = 1 .. count /\ count \in Nat
  BY <1>1, <1>3
<1>6. \A k \in 1 .. count : Windows(s)[k] = FoldAt(s, From(s, k - 1))
  BY <1>1
<1>7. 1 .. count \subseteq Nat \ {0}
  OBVIOUS
<1> QED
  BY <1>4, <1>5, <1>6, <1>7

\* The rows of a fold.
LEMMA FoldIs ==
    ASSUME NEW s \in Samples, NEW k \in Nat, WholeFold(s, k)
    PROVE  LET w    == FoldAt(s, From(s, k))
               last == IF From(s, k) + s.test <= s.rows THEN From(s, k) + s.test ELSE s.rows
           IN  /\ Rows(w.train) # {} /\ Rows(w.validate) # {}
               /\ \A x \in Rows(w.train) \cup Rows(w.validate) : x \in Int /\ x < From(s, k)
               /\ Rows(w.test) = From(s, k) .. last - 1
               /\ From(s, k) < last /\ last <= s.rows /\ last <= From(s, k) + s.test
               /\ last - From(s, k) >= Min({s.test, MinPartialTest})
<1> DEFINE w    == FoldAt(s, From(s, k))
           f    == From(s, k)
           last == IF f + s.test <= s.rows THEN f + s.test ELSE s.rows
<1>1. /\ s.rows \in Nat /\ s.train \in Nat \ {0} /\ s.validate \in Nat \ {0} /\ s.test \in Nat \ {0}
      /\ s.anchored \in BOOLEAN
  BY SampleIs
<1>2. f \in Nat /\ f >= s.train + s.validate
  BY FromGrows
<1>3. f < s.rows /\ Min({f + s.test, s.rows}) = last
  BY <1>1, <1>2, MinOfTwo DEF WholeFold
<1>4. last - f >= Min({s.test, MinPartialTest})
  BY <1>3 DEF WholeFold
<1>5. /\ w.train = << IF s.anchored THEN 0 ELSE f - s.validate - s.train, f - s.validate >>
      /\ w.validate = << f - s.validate, f >> /\ w.test = << f, last >>
  BY <1>3 DEF FoldAt
<1> HIDE DEF w, f
<1>6. Rows(w.train) = (IF s.anchored THEN 0 ELSE f - s.validate - s.train) .. f - s.validate - 1
  BY <1>5 DEF Rows
<1>7. Rows(w.validate) = f - s.validate .. f - 1 /\ Rows(w.test) = f .. last - 1
  BY <1>5 DEF Rows
<1>8. Rows(w.train) # {}
  <2>1. CASE s.anchored
    <3>1. 0 \in Rows(w.train)
      BY <1>1, <1>2, <1>6, <2>1
    <3> QED
      BY <3>1
  <2>2. CASE ~ s.anchored
    <3>1. f - s.validate - s.train \in Rows(w.train)
      BY <1>1, <1>2, <1>6, <2>2
    <3> QED
      BY <3>1
  <2> QED
    BY <2>1, <2>2
<1>9. Rows(w.validate) # {}
  <2>1. f - s.validate \in Rows(w.validate)
    BY <1>1, <1>2, <1>7
  <2> QED
    BY <2>1
<1>10. \A x \in Rows(w.train) \cup Rows(w.validate) : x \in Int /\ x < f
  BY <1>1, <1>2, <1>6, <1>7
<1>11. f < last /\ last <= s.rows /\ last <= f + s.test
  <2>1. CASE f + s.test <= s.rows
    BY <1>1, <1>2, <2>1
  <2>2. CASE ~ (f + s.test <= s.rows)
    BY <1>1, <1>2, <1>3, <2>2
  <2> QED
    BY <2>1, <2>2
<1> QED
  BY <1>4, <1>7, <1>8, <1>9, <1>10, <1>11 DEF w, f

\* Walk-forward is out of sample, whatever the settings.
LEMMA UnseenHolds == sample \in Samples => OosIsUnseen
<1> SUFFICES ASSUME sample \in Samples PROVE OosIsUnseen
  OBVIOUS
<1> DEFINE W == Windows(sample)
           F(k) == From(sample, k - 1)
<1>1. /\ DOMAIN W \subseteq Nat \ {0}
      /\ \A k \in DOMAIN W : W[k] = FoldAt(sample, F(k)) /\ WholeFold(sample, k - 1) /\ k - 1 \in Nat
  BY WindowsAre
<1>2. /\ sample.rows \in Nat /\ sample.test \in Nat /\ sample.step \in Nat /\ sample.step >= sample.test
  BY SampleIs
<1>3. \A k \in DOMAIN W : F(k) \in Nat
  BY <1>1, FromGrows
<1>4. \A k \in DOMAIN W :
         /\ Rows(W[k].train) # {} /\ Rows(W[k].validate) # {}
         /\ \A x \in Rows(W[k].train) \cup Rows(W[k].validate) : x \in Int /\ x < F(k)
  BY <1>1, FoldIs
<1>5. \A k \in DOMAIN W :
         \E last \in Int : /\ Rows(W[k].test) = F(k) .. last - 1
                           /\ F(k) < last /\ last <= sample.rows /\ last <= F(k) + sample.test
                           /\ last - F(k) >= Min({sample.test, MinPartialTest})
  <2> TAKE k \in DOMAIN W
  <2> DEFINE last == IF F(k) + sample.test <= sample.rows THEN F(k) + sample.test ELSE sample.rows
  <2>1. last \in Int
    BY <1>2, <1>3
  <2>2. /\ Rows(W[k].test) = F(k) .. last - 1
        /\ F(k) < last /\ last <= sample.rows /\ last <= F(k) + sample.test
        /\ last - F(k) >= Min({sample.test, MinPartialTest})
    BY <1>1, FoldIs
  <2> HIDE DEF last, F, W
  <2> QED
    BY <2>1, <2>2
<1>6. \A m, k \in DOMAIN W : m < k => F(m) + sample.step <= F(k)
  <2> SUFFICES ASSUME NEW m \in DOMAIN W, NEW k \in DOMAIN W, m < k
               PROVE  F(m) + sample.step <= F(k)
    OBVIOUS
  <2>1. m - 1 \in Nat /\ k - 1 \in Nat /\ m - 1 < k - 1
    BY <1>1
  <2> QED
    BY <2>1, FromGrows
<1> HIDE DEF W, F
<1>7. ASSUME NEW k \in DOMAIN W
      PROVE  /\ Rows(W[k].test) \subseteq 0 .. sample.rows - 1
             /\ Cardinality(Rows(W[k].test)) >= Min({sample.test, MinPartialTest})
  <2>1. PICK last \in Int : /\ Rows(W[k].test) = F(k) .. last - 1
                            /\ F(k) < last /\ last <= sample.rows
                            /\ last - F(k) >= Min({sample.test, MinPartialTest})
    BY <1>5
  <2>2. Cardinality(F(k) .. last - 1) = last - F(k)
    BY <1>3, <2>1, FS_Interval
  <2> QED
    BY <1>2, <1>3, <2>1, <2>2
<1>8. ASSUME NEW k \in DOMAIN W, NEW m \in 1 .. k, m \in DOMAIN W
      PROVE  Rows(W[k].test) \cap (Rows(W[m].train) \cup Rows(W[m].validate)) = {}
  <2>1. F(m) <= F(k)
    <3>1. m < k \/ m = k
      BY <1>1, <1>8
    <3>2. F(m) \in Nat /\ F(k) \in Nat
      BY <1>3, <1>8
    <3>3. ASSUME m < k PROVE F(m) + sample.step <= F(k)
      BY <1>6, <1>8, <3>3
    <3> QED
      BY <1>2, <3>1, <3>2, <3>3
  <2>2. \A x \in Rows(W[k].test) : x \in Int /\ x >= F(k)
    BY <1>3, <1>5
  <2>3. \A x \in Rows(W[m].train) \cup Rows(W[m].validate) : x \in Int /\ x < F(m)
    BY <1>4, <1>8
  <2>4. F(m) \in Nat /\ F(k) \in Nat
    BY <1>3, <1>8
  <2> QED
    BY <2>1, <2>2, <2>3, <2>4
<1>9. ASSUME NEW k \in DOMAIN W, NEW m \in DOMAIN W, k < m
      PROVE  Rows(W[k].test) \cap Rows(W[m].test) = {}
  <2>1. F(k) + sample.test <= F(m)
    BY <1>2, <1>3, <1>6, <1>9
  <2>2. \A x \in Rows(W[m].test) : x \in Int /\ x >= F(m)
    BY <1>3, <1>5
  <2>3. \A x \in Rows(W[k].test) : x \in Int /\ x < F(k) + sample.test
    BY <1>2, <1>3, <1>5
  <2> QED
    BY <1>2, <1>3, <2>1, <2>2, <2>3
<1>10. \A k \in DOMAIN W : \A m \in 1 .. k : m \in DOMAIN W
  <2>1. \E n \in Nat : DOMAIN W = 1 .. n
    BY WindowsAre DEF W
  <2> QED
    BY <2>1
<1>11. \A k, m \in DOMAIN W : k # m => k < m \/ m < k
  BY <1>1
<1> QED
  BY <1>4, <1>7, <1>8, <1>9, <1>10, <1>11 DEF OosIsUnseen, W

LEMMA SeqIs ==
    ASSUME NEW S, NEW seq \in Seq(S)
    PROVE  /\ Len(seq) \in Nat /\ DOMAIN seq = 1 .. Len(seq)
           /\ \A i \in DOMAIN seq : seq[i] \in S
BY LenProperties, ElementOfSeq

LEMMA IntervalIs ==
    ASSUME NEW n \in Nat
    PROVE  IsFiniteSet(1 .. n) /\ Cardinality(1 .. n) = n
BY FS_Interval

\* P-values are parts of the scale.
LEMMA PValuesAre ==
    ASSUME NEW p \in Seq(0 .. Scale)
    PROVE  /\ Len(p) \in Nat /\ DOMAIN p = 1 .. Len(p)
           /\ \A i \in DOMAIN p : p[i] \in Nat /\ p[i] <= 60
<1> DEFINE S == 0 .. Scale
<1>1. \A x \in S : x \in Nat /\ x <= 60
  BY DEF Scale
<1>2. p \in Seq(S)
  OBVIOUS
<1> HIDE DEF S
<1> QED
  BY <1>1, <1>2, SeqIs

\* The rank of a p-value counts it and those before it.
LEMMA RankIs ==
    ASSUME NEW p \in Seq(0 .. Scale), NEW i \in DOMAIN p
    PROVE  Rank(p, i) \in 1 .. Len(p)
<1> DEFINE S == {j \in DOMAIN p : p[j] < p[i] \/ (p[j] = p[i] /\ j <= i)}
<1>1. DOMAIN p = 1 .. Len(p) /\ Len(p) \in Nat
  BY PValuesAre
<1>2. S \subseteq 1 .. Len(p) /\ i \in S
  BY <1>1
<1>3. IsFiniteSet(1 .. Len(p)) /\ Cardinality(1 .. Len(p)) = Len(p)
  BY <1>1, IntervalIs
<1>4. Rank(p, i) = Cardinality(S)
  BY DEF Rank
<1> HIDE DEF S
<1>5. IsFiniteSet(S) /\ Cardinality(S) \in Nat /\ Cardinality(S) <= Len(p)
  BY <1>2, <1>3, FS_Subset, FS_CardinalityType
<1>6. Cardinality(S) # 0
  BY <1>2, <1>5, FS_EmptySet
<1> QED
  BY <1>1, <1>4, <1>5, <1>6

\* The last of up to three p-values has the largest rank.
LEMMA LastRank ==
    ASSUME NEW p \in Seq(0 .. Scale), Len(p) <= 3, Len(p) # 0
    PROVE  \E i \in DOMAIN p : Rank(p, i) = Len(p)
<1> DEFINE top(i) == \A j \in DOMAIN p : p[j] < p[i] \/ (p[j] = p[i] /\ j <= i)
<1>1. DOMAIN p = 1 .. Len(p) /\ Len(p) \in {1, 2, 3}
  <2> DEFINE n == Len(p)
  <2>1. n \in Nat /\ DOMAIN p = 1 .. n
    BY PValuesAre
  <2>2. n <= 3 /\ n # 0
    OBVIOUS
  <2> HIDE DEF n
  <2>3. n \in {1, 2, 3}
    BY <2>1, <2>2
  <2> QED
    BY <2>1, <2>3 DEF n
<1>2. \A j \in DOMAIN p : p[j] \in Int
  BY PValuesAre
<1>3. \E i \in DOMAIN p : top(i)
  <2>1. CASE Len(p) = 1
    <3>1. DOMAIN p = {1}
      BY <1>1, <2>1
    <3> QED
      BY <1>2, <3>1
  <2>2. CASE Len(p) = 2
    <3>1. DOMAIN p = {1, 2}
      BY <1>1, <2>2
    <3>2. top(1) \/ top(2)
      BY <1>2, <3>1
    <3> QED
      BY <3>1, <3>2
  <2>3. CASE Len(p) = 3
    <3>1. DOMAIN p = {1, 2, 3}
      BY <1>1, <2>3
    <3>2. top(1) \/ top(2) \/ top(3)
      BY <1>2, <3>1
    <3> QED
      BY <3>1, <3>2
  <2> QED
    BY <1>1, <2>1, <2>2, <2>3
<1>4. PICK i \in DOMAIN p : top(i)
  BY <1>3
<1>5. {j \in DOMAIN p : p[j] < p[i] \/ (p[j] = p[i] /\ j <= i)} = 1 .. Len(p)
  BY <1>1, <1>4
<1>6. Cardinality(1 .. Len(p)) = Len(p)
  BY <1>1, IntervalIs
<1>7. Rank(p, i) = Len(p)
  BY <1>5, <1>6 DEF Rank
<1> QED
  BY <1>7

\* A division by one, two or three of a multiple of six is exact.
LEMMA ExactDivision ==
    ASSUME NEW a \in Nat, NEW r \in {1, 2, 3}, NEW q \in Nat
    PROVE  /\ (6 * a) \div r \in Nat
           /\ (6 * a) \div r <= 6 * q <=> a <= r * q
<1>1. CASE r = 1
  BY <1>1
<1>2. CASE r = 2
  BY <1>2
<1>3. CASE r = 3
  BY <1>3
<1> QED
  BY <1>1, <1>2, <1>3

\* The smallest of a set is at most a bound when one of its members is.
LEMMA MinAtMost ==
    ASSUME NEW S \in SUBSET Nat, S # {}, NEW b \in Nat
    PROVE  Min(S) <= b <=> \E x \in S : x <= b
<1>1. Min(S) \in S /\ \A y \in S : Min(S) <= y
  BY MinOf
<1>2. \A x, y \in Nat : x <= y /\ y <= b => x <= b
  OBVIOUS
<1> QED
  BY <1>1, <1>2

\* Adjusted p-values reject what the step-up procedure does.
LEMMA StepUpHolds == sample \in Samples => FdrIsStepUp
<1> SUFFICES ASSUME sample \in Samples PROVE FdrIsStepUp
  OBVIOUS
<1> DEFINE p == sample.p
           q == sample.q
           n == Len(p)
           good == {k \in DOMAIN p : p[k] * n <= Rank(p, k) * q}
<1>1. p \in Seq(0 .. Scale) /\ Len(p) <= 3
  BY SampleIs
<1>2. n \in 0 .. 3 /\ DOMAIN p = 1 .. n
  <2>1. n \in Nat /\ DOMAIN p = 1 .. n
    BY <1>1, PValuesAre
  <2>2. n <= 3
    BY <1>1
  <2> HIDE DEF n
  <2> QED
    BY <2>1, <2>2
<1>3. q \in Nat /\ q <= 60
  <2>1. q \in 0 .. Scale
    BY SampleIs
  <2> HIDE DEF q
  <2> QED
    BY <2>1 DEF Scale
<1>4. \A k \in DOMAIN p : p[k] \in Nat /\ p[k] <= 60
  BY <1>1, PValuesAre
<1> HIDE DEF p, q
<1>5. \A k \in DOMAIN p : Rank(p, k) \in 1 .. n
  BY <1>1, RankIs
<1>6. SUFFICES ASSUME NEW i \in DOMAIN p
               PROVE  BenjaminiHochberg(p)[i] <= 6 * q
                      <=> \E k \in good : Rank(p, i) <= Rank(p, k)
  BY DEF FdrIsStepUp, p, q
<1> DEFINE A(j) == (6 * p[j] * n) \div Rank(p, j)
           later == {k \in DOMAIN p : Rank(p, k) >= Rank(p, i)}
           S == {6 * Scale} \cup {A(j) : j \in later}
<1>7. BenjaminiHochberg(p)[i] = Min(S)
  BY <1>6 DEF BenjaminiHochberg
<1>8. \A j \in DOMAIN p : A(j) \in Nat /\ (A(j) <= 6 * q <=> j \in good)
  <2> TAKE j \in DOMAIN p
  <2>1. Rank(p, j) \in {1, 2, 3}
    BY <1>2, <1>5
  <2>2. p[j] * n \in Nat /\ 6 * p[j] * n = 6 * (p[j] * n)
    BY <1>2, <1>4
  <2>3. /\ (6 * (p[j] * n)) \div Rank(p, j) \in Nat
        /\ (6 * (p[j] * n)) \div Rank(p, j) <= 6 * q <=> p[j] * n <= Rank(p, j) * q
    BY <1>3, <2>1, <2>2, ExactDivision
  <2> QED
    BY <2>2, <2>3
<1> HIDE DEF A, n
<1>9. 6 * Scale = 360
  BY DEF Scale
<1>10. S \in SUBSET Nat /\ S # {} /\ 6 * q \in Nat
  BY <1>3, <1>8, <1>9
<1>11. Min(S) <= 6 * q <=> \E x \in S : x <= 6 * q
  <2> HIDE DEF S
  <2> QED
    BY <1>10, MinAtMost
<1>12. (\E x \in S : x <= 6 * q) <=> 360 <= 6 * q \/ \E j \in later : j \in good
  BY <1>8, <1>9
<1>13. ASSUME 360 <= 6 * q PROVE \E j \in later : j \in good
  <2>1. q = 60
    BY <1>3, <1>13
  <2>2. n # 0
    BY <1>2, <1>6
  <2>3. PICK j \in DOMAIN p : Rank(p, j) = n
    BY <1>1, <2>2, LastRank DEF n
  <2>4. p[j] * n <= n * q
    BY <1>2, <1>4, <2>1
  <2>5. n >= Rank(p, i)
    BY <1>2, <1>5, <1>6
  <2> QED
    BY <2>3, <2>4, <2>5
<1>14. (\E j \in later : j \in good) <=> \E k \in good : Rank(p, i) <= Rank(p, k)
  BY <1>2, <1>5, <1>6
<1> QED
  BY <1>7, <1>11, <1>12, <1>13, <1>14

\* The sample stays what it was.
LEMMA SampleStays == ResearchSpec => [](sample \in Samples)
<1>1. ResearchInit => sample \in Samples
  BY DEF ResearchInit
<1>2. sample \in Samples /\ [ResearchNext]_researchVars => (sample \in Samples)'
  BY DEF ResearchNext, researchVars, Start, LoadRegistry, AppendTrials, TearRegistry, Restore,
         Judge, Simulate, ReadLedger, AppendLedger, Declare, Killed
<1> QED
  BY <1>1, <1>2, PTL DEF ResearchSpec

(* Walk-forward windows are out of sample for any number of rows and any      *)
(* lengths whose step is not shorter than the test, and BH-adjusted p-values  *)
(* of up to three strategies reject what the step-up procedure rejects        *)
(* (walkforward.py, build_windows; stats.py, benjamini_hochberg).             *)
THEOREM SamplesHold == ResearchSpec => []SamplesAreSound
<1>1. sample \in Samples => SamplesAreSound
  BY UnseenHolds, StepUpHolds DEF SamplesAreSound
<1> QED
  BY <1>1, SampleStays, PTL
==============================================================================

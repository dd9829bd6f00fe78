----------------------------- MODULE DataStore -----------------------------
(***************************************************************************)
(* The Parquet store of one symbol and the processes around it: updates    *)
(* (the worker's jobs, the scheduler's refresh and the command line each   *)
(* run the pipeline in a process of their own, without a lock), the        *)
(* synthetic build, readers, a disk that loses or damages files, and the   *)
(* import directory of uploads.  A series is an older and a newer bar, a   *)
(* bar is the vendor's version of it (0: no bar).                          *)
(***************************************************************************)
EXTENDS Integers, SequencesExt

CONSTANTS
    Writers,      \* processes that update the symbol
    Answers,      \* the series a vendor may answer with: <<older, newer>>
    Uploads,      \* versions of a file that may be uploaded
    Broken,       \* versions of a bar that the validator rejects
    MaxSnapshots, \* bound: entries of a manifest when an update begins
    MaxSeconds    \* bound: seconds of the import directory's clock

VARIABLES
    manifest,     \* series -> sequence of snapshots [content, ok]
    files,        \* series -> contents that have a Parquet file
    damaged,      \* <<series, content>> whose file has another content now
    actions,      \* the corporate actions on disk, -1 never recorded
    writer,       \* writer -> [at, todo, list, update, alone]
    reader,       \* one reader
    met,          \* two updates have overlapped
    clean,        \* the content of the last update, if it ran alone to its end
    desk          \* the import directory and its uploader

storeVars == << manifest, files, damaged, actions, writer, reader, met, clean, desk >>

ASSUME NoBarIsNotBroken == 0 \notin Broken
ASSUME AnswersAreSeries == Answers \subseteq [1..2 -> Nat]
ASSUME UploadsAreFiles  == 0 \notin Uploads
ASSUME ClockIsBounded   == MaxSeconds \in Nat

Modes  == << "split", "all" >>
Series == {"raw", "split", "all", "synthetic"}
NoFile == [bars |-> << 0, 0 >>, acts |-> 0]
Raw(bars) == [bars |-> bars, acts |-> 0]

ValidBars(bars) == bars # << 0, 0 >> /\ ToSet(bars) \cap Broken = {}

\* latest(): the last snapshot, or the last that passed validation.
LatestOf(entries, requireValid) ==
    LET good == {i \in DOMAIN entries : entries[i].ok \/ ~ requireValid}
    IN  IF good = {} THEN << >> ELSE << entries[Max(good)] >>
Latest(k, requireValid) == LatestOf(manifest[k], requireValid)

\* read_snapshot() returns only a file whose content has the recorded hash.
Readable(k, content) == content \in files[k] /\ << k, content >> \notin damaged

Idle == [at |-> "idle", todo |-> << >>, list |-> << >>, update |-> FALSE, alone |-> TRUE]
Quiet == [at |-> "idle", key |-> "raw", any |-> FALSE, info |-> << >>, got |-> NoFile,
          cited |-> << >>, moved |-> FALSE]

StoreInit ==
    /\ manifest = [k \in Series |-> << >>]
    /\ files = [k \in Series |-> {}] /\ damaged = {} /\ actions = -1
    /\ writer = [w \in Writers |-> Idle]
    /\ reader = Quiet
    /\ met = FALSE /\ clean = << >>
    /\ desk = [file |-> 0, archive |-> [s \in 0..MaxSeconds |-> 0], second |-> 0, up |-> 0, at |-> "idle", shared |-> FALSE]

-----------------------------------------------------------------------------
(* DataPipeline.update and build_synthetic. *)

Working(w) == writer[w].at # "idle"
OthersWork(w) == \E v \in Writers \ {w} : Working(v)

\* _merge_with_stored: fetched bars win, stored bars the answer lacks stay.
Merged(stored, fetched) ==
    [i \in 1..2 |-> IF fetched[i] # 0 THEN fetched[i] ELSE stored[i]]

\* Mutant: raw is written last.
WritesOf_rawLast(bars, acts, passes) ==
    (IF ~ ValidBars(bars) THEN << >>
     ELSE [i \in DOMAIN Modes |->
             [key |-> Modes[i], content |-> [bars |-> bars, acts |-> IF acts = -1 THEN 0 ELSE acts],
              ok |-> passes[i]]])
    \o << [key |-> "raw", content |-> Raw(bars), ok |-> ValidBars(bars)] >>

\* The writes of an update in their order: raw, the actions when the vendor
\* has any to say (-1: unavailable), then the series derived from them, each
\* validated once more after its adjustment.
WritesOf(bars, acts, passes) ==
    << [key |-> "raw", content |-> Raw(bars), ok |-> ValidBars(bars)] >>
    \o (IF acts = -1 THEN << >>
        ELSE << [key |-> "actions", content |-> [bars |-> bars, acts |-> acts], ok |-> TRUE] >>)
    \o (IF ~ ValidBars(bars) THEN << >>
        ELSE [i \in DOMAIN Modes |->
                [key |-> Modes[i], content |-> [bars |-> bars, acts |-> IF acts = -1 THEN 0 ELSE acts],
                 ok |-> passes[i]]])

Begin(w, at, todo, update) ==
    /\ writer' = [v \in Writers |->
           IF v = w THEN [at |-> at, todo |-> todo, list |-> << >>, update |-> update,
                          alone |-> ~ OthersWork(w)]
           ELSE [writer[v] EXCEPT !.alone = @ /\ ~ Working(v)]]
    /\ met' = (met \/ OthersWork(w))
    /\ clean' = << >>

\* An update up to the end of the validation.  An unsorted or empty answer
\* is not stored; a damaged stored series is raised by read_snapshot.
Update(w, fetched, acts, passes) ==
    LET stored == Latest("raw", TRUE)
        unread == stored # << >> /\ ~ Readable("raw", stored[1].content)
        bars   == IF stored = << >> THEN fetched ELSE Merged(stored[1].content.bars, fetched)
    IN  /\ ~ Working(w) /\ bars # << 0, 0 >>
        /\ {k \in Series : Len(manifest[k]) >= MaxSnapshots} = {}
        /\ IF unread THEN Begin(w, "failed", << >>, TRUE)
           ELSE Begin(w, "write", WritesOf(bars, acts, passes), TRUE)
        /\ UNCHANGED << manifest, files, damaged, actions, reader, desk >>

\* The synthetic series is built from the total-return series; it passes
\* when its tracking error against the real product is small enough.
Synthesize(w, tracks) ==
    LET under == Latest("all", TRUE)
    IN  /\ ~ Working(w) /\ under # << >> /\ Readable("all", under[1].content)
        /\ Len(manifest["synthetic"]) < MaxSnapshots
        /\ Begin(w, "write",
                 << [key |-> "synthetic", content |-> under[1].content, ok |-> tracks] >>, FALSE)
        /\ UNCHANGED << manifest, files, damaged, actions, reader, desk >>

\* write(), first half: load the manifest, return when nothing changed, else
\* put the Parquet file in place unless a file of that name is there.
WriteFile(w) ==
    LET job  == Head(writer[w].todo)
        list == manifest[job.key]
        same == list # << >> /\ Last(list) = [content |-> job.content, ok |-> job.ok]
    IN  /\ writer[w].at = "write" /\ writer[w].todo # << >> /\ job.key # "actions"
        /\ IF same
           THEN /\ writer' = [writer EXCEPT ![w].todo = Tail(@)]
                /\ UNCHANGED files
           ELSE /\ writer' = [writer EXCEPT ![w].at = "save", ![w].list = list]
                /\ files' = [files EXCEPT ![job.key] = @ \cup {job.content}]
        /\ UNCHANGED << manifest, damaged, actions, reader, met, clean, desk >>

\* write(), second half: the manifest as it was loaded, with the new entry.
SaveManifest(w) ==
    LET job == Head(writer[w].todo)
    IN  /\ writer[w].at = "save"
        /\ manifest' = [manifest EXCEPT ![job.key] =
                           Append(writer[w].list, [content |-> job.content, ok |-> job.ok])]
        /\ writer' = [writer EXCEPT ![w].at = "write", ![w].todo = Tail(@), ![w].list = << >>]
        /\ reader' = [reader EXCEPT !.moved = @ \/ (reader.at \in {"found", "read"} /\ reader.key = job.key)]
        /\ UNCHANGED << files, damaged, actions, met, clean, desk >>

WriteActions(w) ==
    /\ writer[w].at = "write" /\ writer[w].todo # << >> /\ Head(writer[w].todo).key = "actions"
    /\ actions' = Head(writer[w].todo).content.acts
    /\ writer' = [writer EXCEPT ![w].todo = Tail(@)]
    /\ UNCHANGED << manifest, files, damaged, reader, met, clean, desk >>

Finish(w) ==
    /\ writer[w].at \in {"write", "failed"} /\ writer[w].todo = << >>
    /\ writer' = [writer EXCEPT ![w] = Idle]
    /\ clean' = IF ~ writer[w].update THEN clean
                ELSE IF writer[w].at = "failed" \/ ~ writer[w].alone THEN << >>
                ELSE Latest("raw", FALSE)
    /\ UNCHANGED << manifest, files, damaged, actions, reader, met, desk >>

\* The process is killed; each file is replaced atomically, so it is whole.
Crash(w) ==
    /\ Working(w)
    /\ writer' = [writer EXCEPT ![w] = Idle]
    /\ UNCHANGED << manifest, files, damaged, actions, reader, met, clean, desk >>

\* The disk (or a person) changes or removes a Parquet file.
Damage(k, content) ==
    /\ content \in files[k]
    /\ \/ damaged' = damaged \cup {<< k, content >>} /\ UNCHANGED files
       \/ damaged' = damaged \ {<< k, content >>} /\ files' = [files EXCEPT ![k] = @ \ {content}]
    /\ UNCHANGED << manifest, actions, writer, reader, met, clean, desk >>

-----------------------------------------------------------------------------
(* Readers: ParquetBarStore.read for trading and backtests; services/data.py *)
(* validate and inventory look at the last snapshot whether valid or not.    *)

Lookup(k, any) ==
    /\ reader.at \in {"idle", "done", "error"}
    /\ reader' = [Quiet EXCEPT !.key = k, !.any = any, !.info = Latest(k, ~ any),
                               !.at = IF Latest(k, ~ any) = << >> THEN "error" ELSE "found"]
    /\ UNCHANGED << manifest, files, damaged, actions, writer, met, clean, desk >>

ReadSnapshot ==
    /\ reader.at = "found"
    /\ LET content == reader.info[1].content
       IN  reader' = IF Readable(reader.key, content)
                     THEN [reader EXCEPT !.at = "read", !.got = content]
                     ELSE [reader EXCEPT !.at = "error"]
    /\ UNCHANGED << manifest, files, damaged, actions, writer, met, clean, desk >>

\* load_backtest_data asks for the latest snapshot again to name its hash.
Cite ==
    /\ reader.at = "read"
    /\ reader' = [reader EXCEPT !.at = "done", !.cited = Latest(reader.key, ~ reader.any)]
    /\ UNCHANGED << manifest, files, damaged, actions, writer, met, clean, desk >>

-----------------------------------------------------------------------------
(* import_upload: preview, then _replace_file in the import directory. *)

\* Mutant: only the last file that was replaced is archived.
Archive_lastOnly(version) ==
    /\ desk.at = "idle" /\ version \notin Broken
    /\ desk' = [desk EXCEPT
           !.at = "archived", !.up = version, !.file = 0,
           !.archive = [s \in 0..MaxSeconds |->
                          IF desk.file = 0 THEN @[s] ELSE IF s = desk.second THEN desk.file ELSE 0]]
    /\ UNCHANGED << manifest, files, damaged, actions, writer, reader, met, clean >>

\* A preview that fails validation imports nothing.  The file that is there
\* moves to the archive under a name with the second in it.
Archive(version) ==
    /\ desk.at = "idle" /\ version \notin Broken
    /\ desk' = [desk EXCEPT
           !.at = "archived", !.up = version, !.file = 0,
           !.shared = @ \/ (desk.file # 0 /\ desk.archive[desk.second] # 0),
           !.archive = IF desk.file = 0 THEN @ ELSE [@ EXCEPT ![desk.second] = desk.file]]
    /\ UNCHANGED << manifest, files, damaged, actions, writer, reader, met, clean >>

PutFile ==
    /\ desk.at = "archived"
    /\ desk' = [desk EXCEPT !.at = "idle", !.file = desk.up]
    /\ UNCHANGED << manifest, files, damaged, actions, writer, reader, met, clean >>

\* A crash between the two: the directory has no file, the archive has it.
DeskStops ==
    /\ desk.at = "archived" /\ desk' = [desk EXCEPT !.at = "idle"]
    /\ UNCHANGED << manifest, files, damaged, actions, writer, reader, met, clean >>

Second ==
    /\ desk.second < MaxSeconds /\ desk' = [desk EXCEPT !.second = @ + 1]
    /\ UNCHANGED << manifest, files, damaged, actions, writer, reader, met, clean >>

StoreNext ==
    \/ \E w \in Writers, f \in Answers, a \in -1..1, p \in [DOMAIN Modes -> BOOLEAN] : Update(w, f, a, p)
    \/ \E w \in Writers, t \in BOOLEAN : Synthesize(w, t)
    \/ \E w \in Writers : WriteFile(w) \/ SaveManifest(w) \/ WriteActions(w) \/ Finish(w) \/ Crash(w)
    \/ \E k \in Series : \E content \in files[k] : Damage(k, content)
    \/ \E k \in Series, any \in BOOLEAN : Lookup(k, any)
    \/ ReadSnapshot \/ Cite
    \/ \E v \in Uploads : Archive(v)
    \/ PutFile \/ DeskStops \/ Second

StoreSpec == StoreInit /\ [][StoreNext]_storeVars

-----------------------------------------------------------------------------
(* What a reader is handed passed validation and is the content that was     *)
(* recorded, whatever writers, crashes and the disk did meanwhile; a series  *)
(* with a bar the validator rejects is only shown to the data pages          *)
(* (store.py:18-19, "fail closed").                                          *)
ServedIsValid ==
    reader.at \in {"read", "done"} =>
        /\ reader.got = reader.info[1].content
        /\ ~ reader.any => reader.info[1].ok /\ ValidBars(reader.got.bars)

(* "Each series' manifest lists every snapshot ever written": as long as no  *)
(* two updates overlap, a manifest only grows (store.py:12-14).              *)
HistoryIsKept ==
    [][met' \/ \A k \in Series : IsPrefix(manifest[k], manifest'[k])]_storeVars

(* Without overlapping updates every derived series has the raw snapshot it  *)
(* came from, crashes included: raw is saved before what is derived from it. *)
DerivedHasItsRaw ==
    met \/ \A k \in {"split", "all", "synthetic"} : \A s \in ToSet(manifest[k]) :
              \E r \in ToSet(manifest["raw"]) : r.ok /\ r.content.bars = s.content.bars

(* After an update that ran alone to its end, also one that found half of an *)
(* earlier one's work or what overlapping ones left, the record is that      *)
(* update's: the newest entry of every derived series has the bars of the    *)
(* newest raw snapshot that passed, and is served if it passed itself        *)
(* (pipeline.py:133-136, 185-199).                                           *)
UpdateIsComplete ==
    clean # << >> /\ clean[1].ok =>
        /\ Latest("raw", TRUE) = clean
        /\ \A i \in DOMAIN Modes : LET s == Latest(Modes[i], FALSE)
                                   IN  /\ s # << >> /\ s[1].content.bars = clean[1].content.bars
                                       /\ s[1].ok => Latest(Modes[i], TRUE) = s

(* The hash a backtest records is the hash of the bars it ran on, unless a   *)
(* writer saved the series between the two reads (backtest/data.py:57-60).   *)
CitedIsRead ==
    reader.at = "done" => reader.cited = reader.info \/ reader.moved

(* An upload never loses a file it replaces, now or before: unless two       *)
(* replacements fell in one second, every version ever put in place is there *)
(* or in the archive (services/data.py:619-629).                             *)
UploadsAreKept ==
    [][ \/ desk'.shared
        \/ /\ \A s \in 0..MaxSeconds : desk.archive[s] # 0 => desk'.archive[s] = desk.archive[s]
           /\ \/ desk.file = 0 \/ desk'.file = desk.file
              \/ \E s \in 0..MaxSeconds : desk'.archive[s] = desk.file ]_storeVars

\* A reader gets what it cites, whole and with its origins, whatever writers,
\* crashes and the disk did before.
StoreIsSound == ServedIsValid /\ DerivedHasItsRaw /\ UpdateIsComplete /\ CitedIsRead

\* What was stored once can be found again.
NothingIsLost == HistoryIsKept /\ UploadsAreKept
=============================================================================

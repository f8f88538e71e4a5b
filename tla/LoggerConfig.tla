---------------------------- MODULE LoggerConfig ----------------------------
(***************************************************************************)
(* The configuration of the logger: read from a file, from the environment *)
(* or from a client, saved, and read again when the file has changed,      *)
(* which the manager sees by its time in whole seconds.  The settings that *)
(* the file keeps are alike: global_level stands for async and             *)
(* overflow_policy too; flush_interval_ms is one it does not read.         *)
(***************************************************************************)
EXTENDS Integers, Sequences, FiniteSets, SequencesExt

CONSTANTS
  Absent,           \* a key that is not there
  MaxWrites,        \* bound: writings of the file
  MaxTime,          \* bound: seconds
  MaxUpdates        \* bound: calls of a client

VARIABLES
  clock,
  file,             \* the text in the file, when it was written, and how many were before
  config_, config_file_, last_modified_, hasCallback,
  told,             \* what the callback got last
  loading,          \* load() has read the file, and not yet its time
  checking,         \* checkForChanges() has the time of the file, and not yet the mutex
  updates,
  seen,             \* the writing of the file that was read last
  unseen            \* writings in the second of the time on record, or inside load()

manager == <<config_, config_file_, last_modified_, hasCallback, told>>
configVars == <<clock, file, manager, loading, checking, updates, seen, unseen>>

Bracketed == "bracketed"    \* a pattern with a "]" in it, as the default one has

ConsoleSink == [type |-> "console", path |-> "", pattern |-> Bracketed]
FileSink(pattern) == [type |-> "file", path |-> "app.log", pattern |-> pattern]
NoPath == [type |-> "file", path |-> Absent, pattern |-> Absent]

defaultConfig ==
  [global_level |-> "info", queue_capacity |-> 8192, flush_interval_ms |-> 1000,
   sinks |-> <<ConsoleSink>>]

(***************************************************************************)
(* The text of a file, and what is read from it                            *)
(***************************************************************************)
\* Texts somebody writes.
Texts ==
  [global_level : {Absent, "error"}, queue_capacity : {Absent, 0}, flush_interval_ms : {50},
   sinks : {Absent, <<FileSink("plain")>>, <<NoPath>>, <<FileSink("plain"), ConsoleSink>>}]

SinkFromJson(text) == [f \in DOMAIN text |-> IF text[f] = Absent THEN "" ELSE text[f]]

\* The array ends at the first "]", which may be one inside a sink.
SinksFromJson(array) ==
  LET cut == {i \in DOMAIN array : array[i].pattern = Bracketed}
      whole == IF cut = {} THEN Len(array) ELSE (CHOOSE i \in cut : \A j \in cut : i <= j) - 1
  IN [i \in 1..whole |-> SinkFromJson(array[i])]

fromJson(text) ==
  [defaultConfig EXCEPT
     !.global_level = IF text.global_level = Absent THEN @ ELSE text.global_level,
     !.queue_capacity = IF text.queue_capacity = Absent THEN @ ELSE text.queue_capacity,
     !.sinks = IF text.sinks = Absent THEN @ ELSE SinksFromJson(text.sinks)]

SinkToJson(s) ==
  [s EXCEPT !.path = IF s.type = "file" THEN @ ELSE Absent,
            !.pattern = IF @ = "" THEN Absent ELSE @]

Saved(c) == [c EXCEPT !.sinks = [i \in DOMAIN @ |-> SinkToJson(@[i])]]

validate(c) ==
  /\ c.queue_capacity # 0 /\ c.flush_interval_ms > 0
  /\ \A i \in DOMAIN c.sinks : c.sinks[i].type # "" /\ (c.sinks[i].type = "file" => c.sinks[i].path # "")

(***************************************************************************)
(* The environment                                                         *)
(***************************************************************************)
Environments ==
  [LOG_LEVEL : {Absent, "info", "error"}, LOG_FLUSH_INTERVAL : {Absent, 0},
   LOG_FILE : BOOLEAN, LOG_PATTERN : {Absent, "plain"}]

fromEnvironment(env) ==
  LET sinks == IF env.LOG_FILE THEN <<ConsoleSink, FileSink(Bracketed)>> ELSE <<ConsoleSink>>
  IN [defaultConfig EXCEPT
        !.global_level = IF env.LOG_LEVEL = Absent THEN @ ELSE env.LOG_LEVEL,
        !.flush_interval_ms = IF env.LOG_FLUSH_INTERVAL = Absent THEN @ ELSE env.LOG_FLUSH_INTERVAL,
        !.sinks = [i \in DOMAIN sinks |->
          IF env.LOG_PATTERN = Absent THEN sinks[i] ELSE [sinks[i] EXCEPT !.pattern = env.LOG_PATTERN]]]

\* What the second has at its default does not count.
merge(base, over) ==
  [f \in DOMAIN base |->
     IF f = "sinks" THEN IF over.sinks # <<>> THEN over.sinks ELSE base.sinks
     ELSE IF over[f] # defaultConfig[f] THEN over[f] ELSE base[f]]

(***************************************************************************)
(* The manager                                                             *)
(***************************************************************************)
Init ==
  /\ clock = 1 /\ file = [text |-> Absent, time |-> 0, number |-> 0]
  /\ config_ = [global_level |-> "info", queue_capacity |-> 8192, flush_interval_ms |-> 1000,
                sinks |-> <<>>]
  /\ config_file_ = FALSE /\ last_modified_ = 0 /\ hasCallback = FALSE /\ told = Absent
  /\ loading = FALSE /\ checking = 0 /\ updates = 0
  /\ seen = 0 /\ unseen = {}

Tick ==
  /\ clock < MaxTime /\ clock' = clock + 1
  /\ UNCHANGED <<file, manager, loading, checking, updates, seen, unseen>>

Write(text) ==
  /\ file.number < MaxWrites
  /\ file' = [text |-> text, time |-> clock, number |-> file.number + 1]
  /\ unseen' = IF loading \/ clock <= last_modified_ THEN unseen \cup {file.number + 1} ELSE unseen
  /\ UNCHANGED <<clock, manager, loading, checking, updates, seen>>

Edit == \E text \in Texts : Write(text)

\* save() to the same file, under the mutex.
Save == ~loading /\ Write(Saved(config_))

Readable == file.text # Absent /\ validate(fromJson(file.text))

\* load() holds the mutex from here to LoadStat.
LoadRead ==
  /\ ~loading /\ Readable
  /\ config_' = fromJson(file.text) /\ seen' = file.number
  /\ config_file_' = TRUE /\ loading' = TRUE
  /\ UNCHANGED <<clock, file, last_modified_, hasCallback, told, checking, updates, unseen>>

LoadStat ==
  /\ loading /\ loading' = FALSE /\ last_modified_' = file.time
  /\ UNCHANGED <<clock, file, config_, config_file_, hasCallback, told, checking, updates, seen, unseen>>

\* Without a test of what was read.
LoadFromJson ==
  /\ ~loading /\ updates < MaxUpdates /\ updates' = updates + 1
  /\ \E text \in Texts : config_' = fromJson(text)
  /\ config_file_' = FALSE /\ last_modified_' = 0
  /\ UNCHANGED <<clock, file, hasCallback, told, loading, checking, seen, unseen>>

Told(c) == told' = IF hasCallback THEN c ELSE told

\* A client that takes the environment into account.
UpdateConfig ==
  /\ ~loading /\ updates < MaxUpdates /\ updates' = updates + 1
  /\ \E env \in Environments :
       LET c == merge(config_, fromEnvironment(env))
       IN IF validate(c) THEN config_' = c /\ Told(c) ELSE UNCHANGED <<config_, told>>
  /\ UNCHANGED <<clock, file, config_file_, last_modified_, hasCallback, loading, checking, seen, unseen>>

SetChangeCallback ==
  /\ ~loading /\ hasCallback' = TRUE
  /\ UNCHANGED <<clock, file, config_, config_file_, last_modified_, told, loading, checking, updates, seen, unseen>>

\* The name and the time on record are read without the mutex.
CheckStat ==
  /\ checking = 0 /\ config_file_ /\ file.time > last_modified_
  /\ checking' = file.time
  /\ UNCHANGED <<clock, file, manager, loading, updates, seen, unseen>>

(* Mutant of CheckRead: the time goes on record before the file is read.    *)
CheckReadTimeFirst ==
  /\ checking # 0 /\ ~loading /\ checking' = 0
  /\ last_modified_' = IF config_file_ THEN checking ELSE last_modified_
  /\ IF config_file_ /\ Readable
     THEN config_' = fromJson(file.text) /\ seen' = file.number /\ Told(fromJson(file.text))
     ELSE UNCHANGED <<config_, told, seen>>
  /\ UNCHANGED <<clock, file, config_file_, hasCallback, loading, updates, unseen>>

CheckRead ==
  /\ checking # 0 /\ ~loading /\ checking' = 0
  /\ IF config_file_ /\ Readable
     THEN /\ config_' = fromJson(file.text) /\ seen' = file.number /\ Told(fromJson(file.text))
          /\ last_modified_' = checking
     ELSE UNCHANGED <<config_, last_modified_, told, seen>>
  /\ UNCHANGED <<clock, file, config_file_, hasCallback, loading, updates, unseen>>

Next ==
  \/ Tick \/ Edit \/ Save \/ LoadRead \/ LoadStat \/ LoadFromJson \/ UpdateConfig
  \/ SetChangeCallback \/ CheckStat \/ CheckRead

Spec == Init /\ [][Next]_configVars

-----------------------------------------------------------------------------
\* A file that was written since it was read has a later time than the one on
\* record, so that the next check reads it: whenever it was written, but in
\* the second on record, or between the reading and the stat of load().
ChangesAreSeen ==
  config_file_ /\ ~loading /\ seen # file.number =>
    file.time > last_modified_ \/ file.number \in unseen
=============================================================================

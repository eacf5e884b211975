---------------------------- MODULE MetadataStore ----------------------------
(***************************************************************************)
(* The SQLite metadata of crates/rf-engine/src/storage.rs, as the handlers *)
(* of crates/rf-server/src/main.rs use it: the versioned migration at      *)
(* every start of the server, the session and the index entry written when *)
(* a recording starts, and the bookmarks and annotations a client links to *)
(* the recording it plays back.                                            *)
(*                                                                         *)
(* SQLite is external: every statement is a transaction of its own, is     *)
(* durable once executed, and is refused when it breaks a foreign key.     *)
(* The server may stop between any two statements.  Workspaces,            *)
(* preferences and the stored signal events are left out.                  *)
(***************************************************************************)
EXTENDS Integers, FiniteSets

CONSTANTS
    Captures,    \* recordings made by this installation
    Others,      \* SigMF recordings made elsewhere
    NoCapture,   \* Option::None
    Tables,      \* CREATE TABLE statements of the migration
    MaxNotes,    \* bound: bookmarks and annotations stored at a time
    MaxStops     \* bound: stops of the server in a behavior

ASSUME FilesAssumption ==
    Captures \cap Others = {} /\ NoCapture \notin Captures \cup Others
ASSUME MetadataBounds == Tables \in Nat /\ MaxNotes \in Nat /\ MaxStops \in Nat

VARIABLES
    tables, applied, version,      \* the database: tables, migrations, user_version
    sessions, recordings, notes,   \* its rows
    pc, migration, seen,           \* migrate(): statement, migration, version read
    hPc, hCapture,                 \* recording_start: statement to come, recording
    files,                         \* recordings there are to be loaded
    loaded,                        \* the recording playback has loaded
    unindexed,                     \* recordings whose indexing was cut short (history)
    refused,                       \* links to the loaded recording refused (history)
    stops

databaseVars == <<tables, applied, version, sessions, recordings, notes>>
serverVars == <<pc, migration, seen, hPc, hCapture, loaded>>
metadataVars == <<databaseVars, serverVars, files, unindexed, refused, stops>>

Versions == 1..2
Files == Captures \cup Others
Note == [id : 1..MaxNotes, recording : Files]

MetadataInit ==
    /\ tables = 0 /\ applied = {} /\ version = 0
    /\ sessions = {} /\ recordings = {} /\ notes = {}
    /\ pc = "down" /\ migration = 0 /\ seen = 0
    /\ hPc = "idle" /\ hCapture = NoCapture
    /\ files = Others /\ loaded = NoCapture
    /\ unindexed = {} /\ refused = {} /\ stops = 0

----------------------------------------------------------------------------
(* Storage::open. *)

Open ==
    /\ pc = "down" /\ stops <= MaxStops
    /\ pc' = "tables" /\ migration' = 0
    /\ UNCHANGED <<databaseVars, seen, hPc, hCapture, files, loaded, unindexed, refused,
                   stops>>

\* execute_batch: CREATE TABLE IF NOT EXISTS, one after the other; then the version.
CreateTable ==
    /\ pc = "tables"
    /\ \/ /\ migration < Tables
          /\ migration' = migration + 1
          /\ tables' = IF migration < tables THEN tables ELSE migration + 1
          /\ UNCHANGED <<pc, seen>>
       \/ /\ migration = Tables
          /\ seen' = version
          /\ pc' = "first" /\ migration' = 1
          /\ UNCHANGED tables
    /\ UNCHANGED <<applied, version, sessions, recordings, notes, hPc, hCapture, files,
                   loaded, unindexed, refused, stops>>

\* A migration is a row of schema_migrations, then PRAGMA user_version; the other
\* way round in the faulty variant.
RowLast == "second"
RowFirst == "first"

Execute(statement, v) ==
    IF statement = RowFirst THEN applied' = applied \cup {v} /\ UNCHANGED version
    ELSE version' = v /\ UNCHANGED applied

Migrate ==
    /\ pc \in {"first", "second"} /\ migration \in Versions
    /\ \/ /\ seen >= migration
          /\ pc' = "first" /\ migration' = migration + 1
          /\ UNCHANGED <<applied, version>>
       \/ /\ seen < migration
          /\ Execute(pc, migration)
          /\ pc' = IF pc = "first" THEN "second" ELSE "first"
          /\ migration' = IF pc = "first" THEN migration ELSE migration + 1
    /\ UNCHANGED <<tables, sessions, recordings, notes, seen, hPc, hCapture, files,
                   loaded, unindexed, refused, stops>>

Serve ==
    /\ pc = "first" /\ migration \notin Versions
    /\ pc' = "up"
    /\ UNCHANGED <<databaseVars, migration, seen, hPc, hCapture, files, loaded, unindexed,
                   refused, stops>>

\* A crash or a restart, also after a statement that fails during open.
Stop ==
    /\ pc # "down"
    /\ pc' = "down" /\ stops' = stops + 1
    /\ unindexed' = unindexed \cup ({hCapture} \ {NoCapture})
    /\ hPc' = "idle" /\ hCapture' = NoCapture /\ loaded' = NoCapture
    /\ UNCHANGED <<databaseVars, migration, seen, files, refused>>

----------------------------------------------------------------------------
(* Recordings. *)

\* The statement executed first, after a faulty variant that forgets the session.
IndexFirst == "index"
SessionFirst == "session"

\* The recording's files are there before it is indexed.
StartRecording ==
    /\ pc = "up" /\ hPc = "idle"
    /\ \E c \in Captures \ files : files' = files \cup {c} /\ hCapture' = c
    /\ hPc' = SessionFirst
    /\ UNCHANGED <<databaseVars, pc, migration, seen, loaded, unindexed, refused, stops>>

RecordSession ==
    /\ hPc = "session"
    /\ sessions' = sessions \cup {hCapture}
    /\ hPc' = "index"
    /\ UNCHANGED <<tables, applied, version, recordings, notes, pc, migration, seen,
                   hCapture, files, loaded, unindexed, refused, stops>>

\* session_id REFERENCES sessions(id).
IndexRecording ==
    /\ hPc = "index"
    /\ recordings' = IF hCapture \in sessions THEN recordings \cup {hCapture}
                     ELSE recordings
    /\ hPc' = "idle" /\ hCapture' = NoCapture
    /\ UNCHANGED <<tables, applied, version, sessions, notes, pc, migration, seen,
                   files, loaded, unindexed, refused, stops>>

\* SQLite reports an error: it is logged and the recording goes on.
IndexFails ==
    /\ hPc \in {"session", "index"}
    /\ unindexed' = unindexed \cup {hCapture}
    /\ hPc' = "idle" /\ hCapture' = NoCapture
    /\ UNCHANGED <<databaseVars, pc, migration, seen, files, loaded, refused, stops>>

----------------------------------------------------------------------------
(* Bookmarks and annotations of the recording that is played back. *)

Load ==
    /\ pc = "up" /\ hPc = "idle"
    /\ \E f \in files : loaded' = f
    /\ UNCHANGED <<databaseVars, pc, migration, seen, hPc, hCapture, files, unindexed,
                   refused, stops>>

\* INTEGER PRIMARY KEY: one more than the largest row ID in use.
IsNext(id) ==
    /\ \A n \in notes : n.id < id
    /\ id = 1 \/ \E n \in notes : n.id = id - 1

\* recording_id REFERENCES recordings(id): the insertion is refused otherwise.
CreateNote ==
    /\ pc = "up" /\ loaded # NoCapture
    /\ \/ /\ loaded \in recordings
          /\ \E id \in 1..MaxNotes :
                 IsNext(id) /\ notes' = notes \cup {[id |-> id, recording |-> loaded]}
          /\ UNCHANGED refused
       \/ /\ loaded \notin recordings
          /\ refused' = refused \cup {loaded}
          /\ UNCHANGED notes
    /\ UNCHANGED <<tables, applied, version, sessions, recordings, serverVars, files,
                   unindexed, stops>>

DeleteNote ==
    /\ pc = "up"
    /\ \E n \in notes : notes' = notes \ {n}
    /\ UNCHANGED <<tables, applied, version, sessions, recordings, serverVars, files,
                   unindexed, refused, stops>>

----------------------------------------------------------------------------
MetadataNext == \/ Open \/ CreateTable \/ Migrate \/ Serve \/ Stop
        \/ StartRecording \/ RecordSession \/ IndexRecording \/ IndexFails
        \/ Load \/ CreateNote \/ DeleteNote

MetadataSpec == MetadataInit /\ [][MetadataNext]_metadataVars
----------------------------------------------------------------------------
(* Properties. *)

\* Every variable holds a value of its type; rows refer to rows that exist.
MetadataTypeOK ==
    /\ tables \in 0..Tables /\ applied \subseteq Versions
    /\ version \in Versions \cup {0}
    /\ sessions \subseteq Captures /\ recordings \subseteq sessions
    /\ notes \subseteq Note /\ \A n \in notes : n.recording \in recordings
    /\ \A m, n \in notes : m.id = n.id => m = n
    /\ pc \in {"down", "tables", "first", "second", "up"}
    /\ migration \in Nat /\ seen \in Versions \cup {0}
    /\ hPc \in {"idle", "session", "index"} /\ hPc = "idle" <=> hCapture = NoCapture
    /\ hCapture \in Captures \cup {NoCapture}
    /\ files \subseteq Files /\ loaded \in files \cup {NoCapture}
    /\ unindexed \subseteq Captures /\ refused \subseteq Files

\* docs/storage.md: "an idempotent, versioned SQLite migration".  Wherever earlier
\* starts were cut off, a server that is up has all tables and every migration
\* on record.
ServingMeansMigrated ==
    pc = "up" => tables = Tables /\ applied = Versions /\ version = 2

\* docs/storage.md: "recording start indexes the capture".  A recording whose two
\* statements were both executed is indexed, and stays so over restarts.
StartedIsIndexed ==
    \A c \in (files \cap Captures) \ (unindexed \cup {hCapture}) : c \in recordings

\* docs/playback.md: bookmarks and annotations are stored "linked to the loaded
\* recording session ID".  So none may be refused for want of that recording.
LoadedCanBeLinked == refused = {}
=============================================================================

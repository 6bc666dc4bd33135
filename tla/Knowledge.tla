----------------------------- MODULE Knowledge -----------------------------
(***************************************************************************)
(* A knowledge artifact under KnowledgeService: its status and version,    *)
(* the snapshots of its versions and the reuses it keeps in a JSON list.   *)
(* An operation reads the row, computes the columns from what it read and  *)
(* commits them; nothing is locked in between.                             *)
(***************************************************************************)
EXTENDS Naturals

CONSTANTS
  Authors,      \* sessions that work on the artifact at the same time
  MaxPublish,   \* bound: publications begun in all
  MaxReuses     \* bound: reuses recorded in all

VARIABLES
  published,    \* whether status is "published" rather than "draft"
  version,      \* the row's version
  snapshots,    \* versions that have a snapshot row
  provenance,   \* the reuses in the JSON list
  author,       \* what each session has read
  publishes,
  reuses,       \* reuses whose call returned, numbered
  retrieved,    \* history: the artifact was handed to a context
  behind        \* history: columns written from an outdated read

knowledgeVars == <<published, version, snapshots, provenance, author,
                   publishes, reuses, retrieved, behind>>

-----------------------------------------------------------------------------
Away == [op |-> "away"]

KnowledgeTypeOK ==
  /\ published \in BOOLEAN
  /\ version \in Nat
  /\ snapshots \subseteq Nat
  /\ provenance \subseteq 1 .. reuses
  /\ retrieved \in BOOLEAN
  /\ behind \subseteq {"version", "provenance"}
  /\ \A a \in Authors : author[a].op \in {"away", "publish", "reuse"}

\* create_artifact: a draft at version 1 with its snapshot
KnowledgeInit ==
  /\ published = FALSE
  /\ version = 1
  /\ snapshots = {1}
  /\ provenance = {}
  /\ author = [a \in Authors |-> Away]
  /\ publishes = 0
  /\ reuses = 0
  /\ retrieved = FALSE
  /\ behind = {}

-----------------------------------------------------------------------------
ReadToPublish(a) ==
  /\ author[a] = Away
  /\ publishes < MaxPublish
  /\ publishes' = publishes + 1
  /\ author' = [author EXCEPT ![a] = [op |-> "publish", version |-> version]]
  /\ UNCHANGED <<published, version, snapshots, provenance, reuses, retrieved, behind>>

Bumped_not(v) == v

Bumped(v) == v + 1

\* the new version and its snapshot in one transaction
PublishArtifact(a) ==
  /\ author[a].op = "publish"
  /\ published' = TRUE
  /\ version' = Bumped(author[a].version)
  /\ snapshots' = snapshots \union {Bumped(author[a].version)}
  /\ behind' = IF version \notin {author[a].version, author[a].version + 1}
                 THEN behind \union {"version"} ELSE behind
  /\ author' = [author EXCEPT ![a] = Away]
  /\ UNCHANGED <<provenance, publishes, reuses, retrieved>>

ReadToReuse(a) ==
  /\ author[a] = Away
  /\ author' = [author EXCEPT ![a] = [op |-> "reuse", provenance |-> provenance]]
  /\ UNCHANGED <<published, version, snapshots, provenance, publishes, reuses, retrieved, behind>>

TrackReuse(a) ==
  /\ author[a].op = "reuse"
  /\ reuses < MaxReuses
  /\ reuses' = reuses + 1
  /\ provenance' = author[a].provenance \union {reuses + 1}
  /\ behind' = IF provenance # author[a].provenance
                 THEN behind \union {"provenance"} ELSE behind
  /\ author' = [author EXCEPT ![a] = Away]
  /\ UNCHANGED <<published, version, snapshots, publishes, retrieved>>

\* retrieve_for_context returns published artifacts only
RetrieveForContext ==
  /\ published
  /\ retrieved' = TRUE
  /\ UNCHANGED <<published, version, snapshots, provenance, author, publishes, reuses, behind>>

KnowledgeNext ==
  \/ \E a \in Authors :
       ReadToPublish(a) \/ PublishArtifact(a) \/ ReadToReuse(a) \/ TrackReuse(a)
  \/ RetrieveForContext

KnowledgeSpec == KnowledgeInit /\ [][KnowledgeNext]_knowledgeVars

-----------------------------------------------------------------------------
\* The snapshots are the versions from the first to the artifact's own, even
\* when two publications meet at one number, a context is given an artifact
\* that has a published version, and no reuse is forgotten.  It takes a
\* publication that two others have overtaken, or two reuses at once, to
\* break this (publish_artifact and track_reuse write what they computed from
\* their read).
VersionsHaveSnapshots ==
  /\ "version" \notin behind => snapshots = 1 .. version
  /\ retrieved => 2 \in snapshots
  /\ "provenance" \notin behind => provenance = 1 .. reuses
=============================================================================

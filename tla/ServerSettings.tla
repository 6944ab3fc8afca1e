--------------------------- MODULE ServerSettings ---------------------------
(***************************************************************************)
(* The rows of one settings key and the value the process keeps of it      *)
(* (services/server_settings.py, api/settings.py): loaded when the process *)
(* starts, replaced after each update, read by the handlers without a      *)
(* query.  The table has no unique key.                                    *)
(***************************************************************************)
EXTENDS Naturals, SequencesExt

CONSTANTS
  Values,   \* of the setting; 0, not among them, when there is no row
  Posts,    \* requests that may be under way
  MaxRows,  \* bound: rows of the key
  MaxPosts  \* bound: updates begun

ASSUME SettingsAssumption == Values \subseteq Nat \ {0} /\ {MaxRows, MaxPosts} \subseteq Nat

VARIABLES
  rows,      \* values, in the order of their ids
  cache,     \* ServerSettings._values
  posts,     \* per request: its phase, its value and the row it has read
  begun,
  faithful   \* no overlap, failure or second row since the cache was loaded

settingsVars == <<rows, cache, posts, begun, faithful>>

-----------------------------------------------------------------------------
NoPost == [phase |-> "idle", value |-> 0, row |-> 0, copy |-> 0]

SettingsInit ==
  /\ rows = <<>> /\ cache = 0
  /\ posts = [u \in Posts |-> NoPost]
  /\ begun = 0 /\ faithful = TRUE

Value(row) == IF row = 0 THEN 0 ELSE rows[row]

\* GET /api/settings/ merges the rows into one dict, where the last one wins.
Shown == Value(Len(rows))

\* (mutant) The first row.
LoadFirst ==
  /\ cache' = IF rows = <<>> THEN 0 ELSE rows[1]
  /\ posts' = [u \in Posts |-> NoPost]
  /\ faithful' = TRUE
  /\ UNCHANGED <<rows, begun>>

\* ServerSettings.load, in a new process.
Load ==
  /\ cache' = Value(Len(rows))
  /\ posts' = [u \in Posts |-> NoPost]
  /\ faithful' = TRUE
  /\ UNCHANGED <<rows, begun>>

\* Setting.first: the first row of the key.
Read(u) ==
  /\ posts[u] = NoPost /\ begun < MaxPosts
  /\ LET row == IF rows = <<>> THEN 0 ELSE 1
     IN  \E v \in Values : posts' = [posts EXCEPT ![u] = [phase |-> "read", value |-> v, row |-> row, copy |-> Value(row)]]
  /\ begun' = begun + 1
  /\ faithful' = (faithful /\ Len(rows) <= 1 /\ \A w \in Posts : posts[w] = NoPost)
  /\ UNCHANGED <<rows, cache>>

\* save or edit, and their commit; an unchanged value is not written.
Save(u) ==
  LET post == posts[u]
  IN  /\ post.phase = "read"
      /\ rows' = IF post.row = 0 THEN Append(rows, post.value)
                 ELSE IF post.value = post.copy THEN rows ELSE [rows EXCEPT ![post.row] = post.value]
      /\ Len(rows') <= MaxRows
      /\ posts' = [posts EXCEPT ![u].phase = "written"]
      /\ UNCHANGED <<cache, begun, faithful>>

\* record_change has committed, and the cache is replaced.
Recorded(u) ==
  /\ posts[u].phase = "written"
  /\ cache' = posts[u].value
  /\ posts' = [posts EXCEPT ![u] = NoPost]
  /\ UNCHANGED <<rows, begun, faithful>>

\* A statement of the request fails: the answer is 500, and the cache stays.
PostFails(u) ==
  /\ posts[u].phase \in {"read", "written"}
  /\ posts' = [posts EXCEPT ![u] = NoPost]
  /\ faithful' = (faithful /\ posts[u].phase = "read")
  /\ UNCHANGED <<rows, cache, begun>>

SettingsNext == \E u \in Posts : Read(u) \/ Save(u) \/ Recorded(u) \/ PostFails(u)

-----------------------------------------------------------------------------
\* What the handlers use is what staff are shown: when no update is under way,
\* and since the process started none has overlapped another, failed after its
\* commit or met a second row, which earlier overlaps may have left.
CacheIsShown == faithful /\ posts = [u \in Posts |-> NoPost] => cache = Shown
=============================================================================

------------------------------ MODULE MailWalk ------------------------------
(***************************************************************************)
(* Seek pagination: a client walks through a list of messages or of        *)
(* conversations page by page, while mail moves under its cursor.          *)
(***************************************************************************)
EXTENDS Naturals, FiniteSets

CONSTANTS Listed,      \* message ids, 1..n, in the order of their tie keys
          DateOf,      \* received_at of each
          ConvOf,      \* conversation of each
          PageLimit,   \* the page size, at least 1
          MaxMoves     \* bound: changes of the mail during a walk

ASSUME WalkAssumption ==
    /\ IsFiniteSet(Listed) /\ Listed \subseteq Nat
    /\ DateOf \in [Listed -> Nat] /\ ConvOf \in [Listed -> Nat]
    /\ PageLimit \in Nat \ {0}

VARIABLES inView,      \* the messages the list's rule matches now
          flagged,     \* the flagged ones
          walk,        \* a client's walk through the pages
          moved,       \* rows that changed key or presence since it began
          moves

walkVars == <<inView, flagged, walk, moved, moves>>

-----------------------------------------------------------------------------
\* The rows of a list, each with its sort key: a message by message_sort_key_expr,
\* a conversation by sort_key_expr over its matching messages, the last one first.
MessageKey(m, sort, flags) == IF sort = "date" THEN DateOf[m] ELSE IF m \in flags THEN 1 ELSE 0
LatestOf(ms) == CHOOSE m \in ms : \A k \in ms : DateOf[k] < DateOf[m] \/ (DateOf[k] = DateOf[m] /\ k <= m)

MessageRows(view, sort, flags) == {<<MessageKey(m, sort, flags), m>> : m \in view}
ConversationRows(view, sort, flags) ==
    {LET ms == {m \in view : ConvOf[m] = c}
     IN  <<CASE sort = "date" -> DateOf[LatestOf(ms)]
             [] sort = "flag" -> MessageKey(LatestOf(ms), sort, flags)
             [] sort = "size" -> Cardinality(ms), c>> : c \in {ConvOf[m] : m \in view}}

ListRows(w, view, flags) == IF w.of = "messages" THEN MessageRows(view, w.sort, flags)
                            ELSE ConversationRows(view, w.sort, flags)

\* Ascending order of sort key, then tie key; a descending list turns it round.
Before(desc, a, b) == LET less(x, y) == x[1] < y[1] \/ (x[1] = y[1] /\ x[2] < y[2])
                      IN  IF desc THEN less(b, a) ELSE less(a, b)

\* Fault: the seek compares the sort key alone.
BeyondKeyOnly(desc, cursor, row) == IF desc THEN row[1] < cursor[1] ELSE row[1] > cursor[1]

\* The page filter: strictly past the cursor's key, or its key and past its tie.
Beyond(desc, cursor, row) == Before(desc, cursor, row)

\* The query's ORDER BY and LIMIT: the place of a row among those past the filter.
Place(desc, rows, r) == Cardinality({k \in rows : Before(desc, k, r)}) + 1
Page(desc, rows) == {r \in rows : Place(desc, rows, r) <= PageLimit}

NoWalk == [at |-> "off", of |-> "messages", sort |-> "date", desc |-> TRUE, cursor |-> <<0, 0>>, seen |-> {}, twice |-> {}]

StartWalk == \E of \in {"messages", "conversations"}, sort \in {"date", "flag", "size"}, desc \in BOOLEAN :
    /\ walk.at = "off" /\ (sort = "size" => of = "conversations")
    /\ walk' = [NoWalk EXCEPT !.at = "first", !.of = of, !.sort = sort, !.desc = desc]
    /\ UNCHANGED <<inView, flagged, moved, moves>>

\* query_message_page and query_conversations: one row more than the page tells
\* whether there is a next one; the cursor is the page's last row.
NextPage ==
    /\ walk.at \in {"first", "on"}
    /\ LET rows == {r \in ListRows(walk, inView, flagged) :
                       walk.at = "on" => Beyond(walk.desc, walk.cursor, r)}
           page == Page(walk.desc, rows)
           more == \E r \in rows : Place(walk.desc, rows, r) = PageLimit + 1
           ids == {r[2] : r \in page}
       IN  walk' = [walk EXCEPT !.at = IF more THEN "on" ELSE "done",
                                !.cursor = IF more THEN CHOOSE r \in page : Place(walk.desc, rows, r) = PageLimit
                                            ELSE walk.cursor,
                                !.seen = walk.seen \cup ids,
                                !.twice = walk.twice \cup (walk.seen \cap ids)]
    /\ UNCHANGED <<inView, flagged, moved, moves>>

\* Syncs and commands move mail under the walk.
MailMoves == \E m \in Listed, how \in {"view", "flag"} :
    /\ walk.at \in {"first", "on"} /\ moves < MaxMoves /\ moves' = moves + 1
    /\ inView' = IF how = "view" THEN (inView \ {m}) \cup ({m} \ inView) ELSE inView
    /\ flagged' = IF how = "flag" THEN (flagged \ {m}) \cup ({m} \ flagged) ELSE flagged
    /\ LET was == ListRows(walk, inView, flagged)
           is == ListRows(walk, inView', flagged')
       IN  moved' = moved \cup {r[2] : r \in (was \ is) \cup (is \ was)}
    /\ UNCHANGED walk

WalkInit == inView \in SUBSET Listed /\ flagged = {} /\ walk = NoWalk /\ moved = {} /\ moves = 0
WalkNext == StartWalk \/ NextPage \/ MailMoves

WalkSpec == WalkInit /\ [][WalkNext]_walkVars

-----------------------------------------------------------------------------
\* A walk through a list shows every row that stayed where it was exactly once,
\* whatever other rows did under the cursor, ties of the sort key included.
WalkSeesAll ==
    walk.at = "done" =>
        \A r \in ListRows(walk, inView, flagged) : r[2] \notin moved => r[2] \in walk.seen \ walk.twice
=============================================================================

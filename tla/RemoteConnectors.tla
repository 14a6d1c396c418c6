-------------------------- MODULE RemoteConnectors --------------------------
(***************************************************************************)
(* The connectors whose other side is a server: the HTTP destination, which*)
(* posts one record after the other, and the paginated HTTP source         *)
(* (connectors/http_json.py); the database destination, which inserts all  *)
(* rows in one transaction (connectors/database.py).  A server may carry   *)
(* out what it never answers, and later than anybody waits.  MoveSession   *)
(* and DestinationRuntime rely on what these connectors say of a write.    *)
(***************************************************************************)
EXTENDS Naturals, Sequences, FiniteSets, FiniteSetsExt

CONSTANTS
    Sinks,         \* "post", "keyed post", "transactional", "plain"
    Inputs,        \* sequences of items: "good", "bad", "raises", or "same" as another
    WriteBudget,   \* max_records of the destination's WorkBudget
    ReadBudget,    \* max_records of the source's WorkBudget
    BatchLimit,    \* max_records of an atomic batch
    Modes,         \* pagination: "none", "page", "cursor"
    Totals,        \* numbers of records at the source
    PageSize,      \* records the source's server puts on a page
    MaxPages       \* max_pages

ASSUME RemoteConstants ==
    /\ Sinks \subseteq {"post", "keyed post", "transactional", "plain"}
    /\ {WriteBudget, ReadBudget, BatchLimit, PageSize, MaxPages} \subseteq Nat \ {0}
    /\ Modes \subseteq {"none", "page", "cursor"} /\ Totals \subseteq Nat

ASSUME InputsAssumption == \A items \in Inputs : items \in Seq({"good", "bad", "raises", "same"})

VARIABLES
    write,     \* the call: its sink, items, whether it is a batch, records acknowledged,
               \* where it is, what it says and of the record after a partial write
    onTheWay,  \* the record of a request that the server has not dealt with, 0 if none
    pending,   \* rows in the open transaction
    rowsKept,  \* what the server keeps of the call, in order
    fetch      \* the reading: mode, collection, pages asked for, position, cursors seen,
               \* records given out, where it is

remoteVars == <<write, onTheWay, pending, rowsKept, fetch>>
serverVars == <<onTheWay, pending, rowsKept, fetch>>

WriteAt(place) == write.at = place
Items == write.items
HasItem(kinds) == \E i \in DOMAIN Items : Items[i] \in kinds

Says(verdict, next) == write' = [write EXCEPT !.at = "over", !.says = verdict, !.next = next]

-----------------------------------------------------------------------------
(* The HTTP destination.                                                   *)

FailsForgettingCount(outcome) == Says(outcome, "none")

(* fail: what has been acknowledged makes the failure a partial write.     *)
Fails(outcome) ==
    IF write.count = 0 THEN Says(outcome, "none") ELSE Says("partial", outcome)

(* The credential may be missing.  An idempotency header needs the         *)
(* delivery's context, and its key is for one record: the call looks ahead.*)
BeginPost ==
    /\ WriteAt("begin") /\ write.sink \in {"post", "keyed post"}
    /\ \/ Says("raised", "none")
       \/ IF write.sink = "post" \/ (write.context /\ Len(Items) = 1 /\ Items # <<"raises">>)
          THEN write' = [write EXCEPT !.at = "take"]
          ELSE Says(IF ~write.context THEN "raised"
                    ELSE IF Items = <<>> THEN "written" ELSE "not committed", "none")
    /\ UNCHANGED serverVars

(* The next record is taken, measured and encoded, and sent.               *)
TakeRecord ==
    LET index == write.count + 1
    IN /\ WriteAt("take")
       /\ IF index > Len(Items) THEN Says("written", "none") /\ UNCHANGED onTheWay
          ELSE IF Items[index] \in {"bad", "raises"} \/ index > WriteBudget
          THEN Fails("not committed") /\ UNCHANGED onTheWay
          ELSE write' = [write EXCEPT !.at = "wait"] /\ onTheWay' = index
       /\ UNCHANGED <<pending, rowsKept, fetch>>

(* A success is counted; another status or no answer proves nothing.       *)
Answer ==
    /\ WriteAt("wait")
    /\ \/ /\ onTheWay = 0 /\ rowsKept # <<>> /\ rowsKept[Len(rowsKept)] = write.count + 1
          /\ write' = [write EXCEPT !.at = "take", !.count = @ + 1]
       \/ Fails("unknown")
    /\ UNCHANGED serverVars

(* The server keeps the record of a request or rejects it, perhaps when    *)
(* the client has given up.                                                *)
ServerActs ==
    /\ onTheWay # 0 /\ onTheWay' = 0
    /\ rowsKept' \in {rowsKept, Append(rowsKept, onTheWay)}
    /\ UNCHANGED <<write, pending, fetch>>

-----------------------------------------------------------------------------
(* The database destination.                                               *)

IsDatabase == write.sink \in {"transactional", "plain"}

(* write_records and write_batch up to the transaction, for which there    *)
(* may be no connection.                                                   *)
BeginInsert ==
    /\ WriteAt("begin") /\ IsDatabase
    /\ IF ~write.batch /\ HasItem({"raises"}) THEN Says("raised", "none")
       ELSE IF ~write.batch /\ Items = <<>> THEN Says("written", "none")
       ELSE IF \/ HasItem({"bad"})
               \/ write.batch /\ \/ write.sink = "plain" \/ Len(Items) \notin 1..BatchLimit
                                 \/ HasItem({"same", "raises"})
       THEN Says("not committed", "none")
       ELSE write' = [write EXCEPT !.at = "insert"] \/ Says("raised", "none")
    /\ UNCHANGED serverVars

(* The statement runs to its end or fails on the way.  Without             *)
(* transactions the rows are there at once.                                *)
ExecuteInsert(n) ==
    LET done == [i \in 1..n |-> i]
    IN /\ WriteAt("insert")
       /\ IF write.sink = "plain" THEN rowsKept' = done /\ UNCHANGED pending
          ELSE pending' = done /\ UNCHANGED rowsKept
       /\ \E place \in {"roll back"} \cup (IF n = Len(Items) THEN {"commit"} ELSE {}) :
            write' = [write EXCEPT !.at = place]
       /\ UNCHANGED <<onTheWay, fetch>>

(* After a failure, or a row count that proves nothing: only a transaction *)
(* that was rolled back is known to have left nothing.                     *)
RollBack ==
    /\ WriteAt("roll back")
    /\ pending' = <<>>
    /\ \/ Says(IF write.sink = "transactional" THEN "not committed" ELSE "unknown", "none")
       \/ Says("unknown", "none")
    /\ UNCHANGED <<onTheWay, rowsKept, fetch>>

Commit ==
    /\ WriteAt("commit")
    /\ pending' = <<>>
    /\ \/ rowsKept' = rowsKept \o pending /\ Says("written", "none")
       \/ rowsKept' \in {rowsKept, rowsKept \o pending} /\ Says("unknown", "none")
    /\ UNCHANGED <<onTheWay, fetch>>

-----------------------------------------------------------------------------
(* The HTTP source: pages by number or offset, or by the cursor of the page*)
(* before.  A position counts records.                                     *)

FetchAt(place) == fetch.at = place
PageFrom(position) ==
    [i \in 1..Min({PageSize, fetch.total - Min({position, fetch.total})}) |-> position + i]

(* The cursor that leads on; a server may hand out one again.              *)
NextCursors(position) ==
    (IF position + PageSize < fetch.total THEN {position + PageSize} ELSE {0}) \cup fetch.seen

StopAtTheLimit == "done"

(* After max_pages pages the reading is an error.                          *)
PageLimit == "failed"

RequestPage ==
    LET page == IF fetch.mode = "none" THEN [i \in 1..fetch.total |-> i]
                ELSE PageFrom(fetch.position)
        given == [fetch EXCEPT !.pages = @ + 1, !.out = @ \o page]
        after(place) == IF given.pages = MaxPages /\ place = "ask" THEN PageLimit ELSE place
    IN /\ FetchAt("ask")
       /\ \/ fetch' = [fetch EXCEPT !.at = "failed"]
          \/ page = <<>> /\ fetch' = [fetch EXCEPT !.at = "done"]
          \/ /\ page # <<>> /\ Len(given.out) > ReadBudget
             /\ fetch' = [given EXCEPT !.at = "failed", !.out = SubSeq(@, 1, ReadBudget)]
          \/ /\ page # <<>> /\ Len(given.out) <= ReadBudget
             /\ \/ fetch.mode = "none" /\ fetch' = [given EXCEPT !.at = "done"]
                \/ /\ fetch.mode = "page"
                   /\ fetch' = [given EXCEPT !.at = after("ask"), !.position = @ + PageSize]
                \/ /\ fetch.mode = "cursor"
                   /\ \E next \in NextCursors(fetch.position) :
                        fetch' = [given EXCEPT
                                    !.at = IF next = 0 THEN "done"
                                           ELSE IF next \in fetch.seen THEN "failed"
                                           ELSE after("ask"),
                                    !.position = next, !.seen = @ \cup {next}]
       /\ UNCHANGED <<write, onTheWay, pending, rowsKept>>

-----------------------------------------------------------------------------
RemoteInit ==
    /\ write \in [sink : Sinks, items : Inputs, batch : BOOLEAN, context : BOOLEAN,
                  count : {0}, at : {"begin"}, says : {"none"}, next : {"none"}]
    /\ onTheWay = 0 /\ pending = <<>> /\ rowsKept = <<>>
    /\ fetch \in [mode : Modes, total : Totals, pages : {0}, position : {0}, seen : {{}},
                  out : {<<>>}, at : {"ask"}]

RemoteNext ==
    \/ BeginPost \/ TakeRecord \/ Answer \/ ServerActs
    \/ BeginInsert \/ (\E n \in 0..Len(Items) : ExecuteInsert(n)) \/ RollBack \/ Commit
    \/ RequestPage

RemoteSpec == RemoteInit /\ [][RemoteNext]_remoteVars

-----------------------------------------------------------------------------
(* What a connector says of a write is true and stays true, also when a    *)
(* request is carried out late: all of it is there, none of it, or exactly *)
(* the acknowledged prefix and of the record after it what was said        *)
(* (WriteOutcome, PartialConnectorWriteError).                             *)
WriteTruth ==
    LET first(n) == [i \in 1..n |-> i]
        settled == onTheWay = 0
    IN /\ write.says = "written" => rowsKept = first(Len(Items)) /\ settled
       /\ write.says \in {"not committed", "raised"} => rowsKept = <<>> /\ settled
       /\ write.says = "partial" =>
            /\ write.count > 0
            /\ rowsKept \in {first(write.count), first(write.count + 1)}
            /\ write.next = "not committed" => rowsKept = first(write.count) /\ settled

(* A reading that ends without an error has given out each record of the   *)
(* collection once and in order: no page limit, budget or repeated cursor  *)
(* shortens or doubles it unnoticed.                                       *)
PagesRead == FetchAt("done") => fetch.out = [i \in 1..fetch.total |-> i]

=============================================================================

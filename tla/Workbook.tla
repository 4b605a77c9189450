----------------------------- MODULE Workbook -----------------------------
(***************************************************************************)
(* What the connector promises of the workbook, as long as nobody saves it *)
(* while one of its calls is running: a register with compare-and-set.  An *)
(* offer is about the version it was made from, and is written in one step *)
(* on that version or not at all.  A copy that is kept is of the version   *)
(* it is kept for, and only a restore, which is not atomic, ever leaves    *)
(* less than a whole workbook.                                             *)
(*                                                                         *)
(* Between the start and the end of a write there is no temporary copy,    *)
(* check, error or clean-up here, only the write itself, if it takes       *)
(* place.  Once somebody did save the workbook during a call, nothing is   *)
(* promised.                                                               *)
(***************************************************************************)
EXTENDS Naturals

VARIABLES
    book,     \* rows and version of the workbook, and whether it is torn
    copies,   \* the copies kept, by version
    offers,   \* row, before, after and version of the offers made
    doing,    \* the write or the restore that is under way
    calm      \* nobody saved the workbook during a call

files == <<book, copies>>
vars  == <<book, copies, offers, doing, calm>>

Nothing       == [op |-> "none"]
Writing(p)    == [op |-> "write", of |-> p]
Restoring(v)  == [op |-> "restore", of |-> v]

Torn == [rows |-> <<>>, version |-> 0, torn |-> TRUE]

\* A version that nothing has.
New(version) ==
    /\ version > book.version
    /\ \A v \in DOMAIN copies : version > v
    /\ \A p \in DOMAIN offers : version > offers[p].fingerprint

Init ==
    /\ ~book.torn /\ book.version = 1
    /\ DOMAIN copies = {}
    /\ DOMAIN offers = {}
    /\ doing = Nothing
    /\ calm = TRUE

-----------------------------------------------------------------------------
\* An offer holds what the workbook says when it is made.
Offer(p) ==
    /\ doing = Nothing
    /\ ~book.torn
    /\ p \notin DOMAIN offers
    /\ DOMAIN offers' = DOMAIN offers \cup {p}
    /\ \A q \in DOMAIN offers : offers'[q] = offers[q]
    /\ offers'[p].fingerprint = book.version
    /\ offers'[p].row \in DOMAIN book.rows
    /\ offers'[p].before = book.rows[offers'[p].row]
    /\ UNCHANGED <<files, doing>>

\* Another program saves the workbook.
Save ==
    /\ doing = Nothing
    /\ ~book'.torn
    /\ New(book'.version)
    /\ UNCHANGED <<copies, offers, doing>>

StartWrite(p) ==
    /\ doing = Nothing
    /\ doing' = Writing(p)
    /\ UNCHANGED <<files, offers>>

\* The version that will be replaced is kept, when it was not.
Keep(p) ==
    /\ doing = Writing(p)
    /\ book.version = offers[p].fingerprint
    /\ copies' = [v \in DOMAIN copies \cup {book.version} |->
                    IF v = book.version THEN book ELSE copies[v]]
    /\ UNCHANGED <<book, offers, doing>>

\* Compare and set.
Write(p) ==
    /\ doing = Writing(p)
    /\ ~book.torn
    /\ book.version = offers[p].fingerprint
    /\ book.rows[offers[p].row] = offers[p].before
    /\ book' = [rows |-> [book.rows EXCEPT ![offers[p].row].status = offers[p].after],
                version |-> book'.version, torn |-> FALSE]
    /\ New(book'.version)
    /\ UNCHANGED <<copies, offers, doing>>

EndWrite(p) ==
    /\ doing = Writing(p)
    /\ doing' = Nothing
    /\ UNCHANGED <<files, offers>>

\* A restore tears the workbook first, and leaves it torn when it stops or when
\* the copy that was asked for is not whole.
StartRestore(v) ==
    /\ doing = Nothing
    /\ doing' = Restoring(v)
    /\ book' = Torn
    /\ UNCHANGED <<copies, offers>>

EndRestore(v) ==
    /\ doing = Restoring(v)
    /\ doing' = Nothing
    /\ book' \in {book, IF v \in DOMAIN copies THEN copies[v] ELSE Torn}
    /\ UNCHANGED <<copies, offers>>

\* The process ends, and with it the offers and what was under way.
Forget ==
    /\ DOMAIN offers' = {}
    /\ doing' = Nothing
    /\ UNCHANGED files

Step ==
    \/ Save \/ Forget
    \/ \E p \in DOMAIN offers' : Offer(p)
    \/ \E p \in DOMAIN offers : StartWrite(p) \/ Keep(p) \/ Write(p) \/ EndWrite(p)
    \/ doing'.op = "restore" /\ StartRestore(doing'.of)
    \/ doing.op = "restore" /\ EndRestore(doing.of)

Next == calm' => calm /\ Step

Spec == Init /\ [][Next]_vars
=============================================================================

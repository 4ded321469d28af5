------------------------------ MODULE NfsWire -------------------------------
(***************************************************************************)
(* A message on its way from one end of a connection to the other: it is   *)
(* packed behind a record mark and arrives piece by piece.  The message is *)
(* a call, a reply, or the reply of READDIR or READDIRPLUS, whose page the *)
(* server fills entry by entry up to the limits of the request.            *)
(***************************************************************************)
EXTENDS NfsTypes, FiniteSetsExt

CONSTANTS Values,       \* Values[type] is a sequence of values of a type of Layout
          Requests,     \* READDIR requests, [plus, count, dircount, attrs]
          Entries,      \* what a directory entry may be: values of entryplus3
          MaxEntries,   \* entries of a directory (bound)
          Piece         \* bytes that arrive at once (bound)

VARIABLES page,     \* the reply being filled, or None
          msg,      \* the message sent, or None
          sent,     \* its bytes
          arrived   \* how many of them have arrived

vars == <<page, msg, sent, arrived>>

None == [idle |-> TRUE]
Init == page = None /\ msg = None /\ sent = <<>> /\ arrived = 0

Idle == page = None /\ msg = None

\* The message behind its record mark; every message is one fragment.
Framed(T, v) == pack(U32, fragment_header(packed_size(T, v), TRUE)) \o pack(T, v)

Send(type, v) ==
    /\ msg' = [type |-> type, val |-> v]
    /\ sent' = Framed(Layout[type], v)
    /\ page' = None
    /\ UNCHANGED arrived

SendMessage == Idle /\ \E type \in DOMAIN Values : \E i \in DOMAIN Values[type] : Send(type, Values[type][i])

Arrive ==
    /\ arrived < Len(sent)
    /\ arrived' = Min({arrived + Piece, Len(sent)})
    /\ UNCHANGED <<page, msg, sent>>

-----------------------------------------------------------------------------
(* BoundedList and BoundedEntryPlusList.                                   *)

BoundedList(max_size) == [entries |-> <<>>, current_size |-> 4, max_size |-> max_size]

EntryType(plus) == IF plus THEN entryplus3 ELSE entry3

ItemSize_NoMark(T, item) == packed_size(T, item)

\* An item costs itself and the mark before it.
ItemSize(T, item) == packed_size(T, item) + 4

\* The part of an entry that dircount limits.
DirSize(entry) == packed_size(U64, entry[1]) + 4 + packed_size(filename3, entry[2]) + packed_size(U64, entry[3])

Fits(p, item) ==
    /\ p.req.plus => p.dirsize + DirSize(item) <= p.req.dircount
    /\ p.list.current_size + ItemSize(EntryType(p.req.plus), item) <= p.list.max_size

Pushed(p, item) ==
    [p EXCEPT !.list.entries = Append(@, item),
              !.list.current_size = @ + ItemSize(EntryType(p.req.plus), item),
              !.dirsize = @ + DirSize(item)]

-----------------------------------------------------------------------------
(* nfsproc3_readdir and nfsproc3_readdirplus: the limits and the page.     *)

NFS3ERR_TOOSMALL == 10005
SomeAttr == <<2, 0, 1, 0, 0, 0, 0, <<0, 0>>, 0, 1, <<1, 2>>, <<1, 2>>, <<1, 2>>>>
Attributes(req) == IF req.attrs THEN [tag |-> 1, val |-> SomeAttr] ELSE [tag |-> 0, val |-> <<>>]

ResType(plus) == IF plus THEN "READDIRPLUS3res" ELSE "READDIR3res"
ResOkType(plus) == IF plus THEN READDIRPLUS3resok ELSE READDIR3resok
ResOk(req, entries, eof) == <<Attributes(req), [i \in 1..8 |-> i], <<entries, eof>>>>

\* The bytes of the reply that are not for entries: READDIR counts the reply
\* without entries and an xid, READDIRPLUS takes 128 for it.
empty_len(req) ==
    IF req.plus THEN 128
    ELSE packed_size(U32, 0) + packed_size(READDIR3resok, ResOk(req, <<>>, FALSE))

Refuse(req) == Send(ResType(req.plus), [tag |-> NFS3ERR_TOOSMALL, val |-> <<Attributes(req)>>])

ReadDir ==
    /\ Idle
    /\ \E req \in Requests :
           \/ /\ req.count < empty_len(req)
              /\ Refuse(req)
           \/ /\ req.count >= empty_len(req)
              /\ page' = [req |-> req, list |-> BoundedList(req.count - empty_len(req)), dirsize |-> 0, read |-> 0]
              /\ UNCHANGED <<msg, sent, arrived>>

\* READDIR's entries have neither attributes nor a handle.
EntryOf(plus, entry) == IF plus THEN entry ELSE SubSeq(entry, 1, 3)

Filled(eof) ==
    IF page.list.entries = <<>> /\ ~eof
    THEN Refuse(page.req)
    ELSE Send(ResType(page.req.plus), [tag |-> 0, val |-> ResOk(page.req, page.list.entries, eof)])

NextEntry ==
    /\ page # None
    /\ page.read < MaxEntries
    /\ \E entry \in Entries :
           LET item == EntryOf(page.req.plus, entry) IN
           \/ /\ Fits(page, item)
              /\ page' = [Pushed(page, item) EXCEPT !.read = @ + 1]
              /\ UNCHANGED <<msg, sent, arrived>>
           \/ /\ ~Fits(page, item)
              /\ Filled(FALSE)

EndOfDirectory == page # None /\ Filled(TRUE)

Next == SendMessage \/ ReadDir \/ NextEntry \/ EndOfDirectory \/ Arrive

Spec == Init /\ [][Next]_vars

-----------------------------------------------------------------------------
(***************************************************************************)
(* What has arrived decodes exactly when it is the whole message: a prefix *)
(* is an error and never a value, the whole gives the value that was       *)
(* packed and leaves no byte over, packed_size foretold its length, and    *)
(* the record mark names that length and says that nothing follows.        *)
(***************************************************************************)
RoundTrip ==
    msg # None =>
        LET got    == SubSeq(sent, 1, arrived)
            body   == unpack(Layout[msg.type], got, 5)
            header == from_be_bytes(SubSeq(sent, 1, 4))
        IN  /\ body.ok <=> arrived = Len(sent)
            /\ body.ok => /\ body.v = msg.val
                          /\ body.next = Len(sent) + 1
                          /\ fragment_eof(header)
                          /\ fragment_length(header) = Len(sent) - 4
                          /\ packed_size(Layout[msg.type], msg.val) = Len(sent) - 4

\* The entries of a page as READDIR would send them.
DirectoryInformation(entries) ==
    packed_size(List(entry3), [i \in DOMAIN entries |-> SubSeq(entries[i], 1, 3)]) - 4

(***************************************************************************)
(* A page never outgrows its request: the packed READDIR3resok fits in     *)
(* count and READDIRPLUS3resok in maxcount, whatever the names, and the    *)
(* directory information of a READDIRPLUS page fits in dircount.           *)
(***************************************************************************)
PageFits ==
    page # None =>
        LET resok == ResOk(page.req, page.list.entries, FALSE) IN
        /\ packed_size(ResOkType(page.req.plus), resok) <= page.req.count
        /\ page.req.plus => DirectoryInformation(page.list.entries) <= page.req.dircount
============================================================================

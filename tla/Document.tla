-------------------------------- MODULE Document ------------------------------
(***************************************************************************)
(* The objects of a document (pdfdocument/mod.rs, getobj): an object is    *)
(* looked for in each cross-reference section read, the latest first, and  *)
(* kept once it is read; a file that is closed reads nothing more.         *)
(*                                                                         *)
(* An object is what the page tree and the interpreter tell apart of it.   *)
(* Its entry in a section is the object at that place of the file; or what *)
(* an attempt to parse it gives (corrupt: PSEOF or PDFSyntaxError, fails:  *)
(* an error of another kind); or its place in an object stream.  Left out: *)
(* an object stream that is itself in one, and decryption.                 *)
(***************************************************************************)
EXTENDS Integers, Sequences, FiniteSetsExt, SequencesExt, TLC

CONSTANTS
    Documents, \* the files that may be opened
    MaxDepth   \* frames of one recursion when Python raises RecursionError

VARIABLES
    doc,     \* the file opened, and how it is used; never changed
    xrefs,   \* the places of the cross-reference sections read, in that order
    catalog, \* /Root of the first section that has one
    loaded,  \* cached_objs: the objects read so far, by id
    closed   \* the file is closed

-----------------------------------------------------------------------------
(* PDFXRef and PDFXRefStream. *)

Free == [kind |-> "free"]

\* An xref stream has the entries of its ranges, one range after the other.
EntriesBefore(ranges, k) == FoldFunction(LAMBDA r, n : n + r[2], 0, SubSeq(ranges, 1, k - 1))
IdsOf(range) == range[1] .. range[1] + range[2] - 1

\* get_pos: by the first range that has the id.
StreamEntry(s, id) ==
    LET Has == {k \in DOMAIN s.ranges : id \in IdsOf(s.ranges[k])}
    IN  IF Has = {} THEN Free
        ELSE s.entries[EntriesBefore(s.ranges, Min(Has)) + id - s.ranges[Min(Has)][1] + 1]

\* get_objids, which counts the entries from the first in every range.
StreamIds(s) ==
    LET OfRange(r) == SelectSeq([i \in 1 .. r[2] |-> r[1] + i - 1],
                                LAMBDA id : s.entries[id - r[1] + 1] # Free)
    IN  FlattenSeq([k \in DOMAIN s.ranges |-> OfRange(s.ranges[k])])

\* The section at a place of the file, where none need be; the scan's has no place.
None == 0
Scanned == -1
Section(pos) ==
    IF pos = Scanned THEN doc.scan
    ELSE IF pos \in DOMAIN doc.sections THEN doc.sections[pos] ELSE [kind |-> "invalid"]

Objids(s) == IF s.kind = "stream" THEN StreamIds(s) ELSE s.ids

-----------------------------------------------------------------------------
(* getobj. *)

\* What is found in place of an object: nothing to be parsed (getobj goes on to
\* the next section), PDFObjectNotFound, or an error of another kind.
Corrupt == [kind |-> "corrupt"]
Missing == [kind |-> "missing"]
Raises == [kind |-> "raises"]

\* get_pos; a section that does not have the id is passed over as well.
Ids(s) == IF s.kind = "stream" THEN UNION {IdsOf(r) : r \in Range(s.ranges)}
          ELSE DOMAIN s.offsets
EntryOf(s, id) == IF id \notin Ids(s) THEN Free
                  ELSE IF s.kind = "stream" THEN StreamEntry(s, id) ELSE s.offsets[id]
Entry(pos, id) == EntryOf(Section(pos), id)

\* An object of the file itself; a file that is closed has none (ValueError).
Parsed(entry, shut) ==
    IF entry = Free THEN Corrupt
    ELSE IF shut \/ entry.kind \in {"fails", "packed"} THEN Raises
    ELSE IF entry.kind = "corrupt" THEN Corrupt ELSE entry

\* The first of what the sections give; PDFObjectNotFound when there is none.
First(tries) ==
    LET found == {k \in DOMAIN tries : tries[k] # Corrupt}
    IN  IF found = {} THEN Missing ELSE tries[Min(found)]

\* The object stream of a packed object, which is not looked for in streams.
StreamOf(id, shut) ==
    IF id \in DOMAIN loaded THEN loaded[id]
    ELSE First([k \in DOMAIN xrefs |-> Parsed(Entry(xrefs[k], id), shut)])

\* getobj_at.  That the object stream is missing is no reason to look further; what
\* is no stream stands for one without an id (AssertionError); a stream that is no
\* object stream is taken to hold no objects.
Streams == {"objstm", "stream", "form", "image"}
InStream(stream, index) ==
    IF stream.kind \in {"missing", "raises"} THEN stream
    ELSE IF stream.kind \notin Streams THEN Raises
    ELSE IF stream.kind = "objstm" /\ index \in DOMAIN stream.objs
    THEN stream.objs[index] ELSE Corrupt
Tried(entry, shut) ==
    IF entry.kind # "packed" THEN Parsed(entry, shut)
    ELSE InStream(StreamOf(entry.stream, shut), entry.index)

Tries(id, shut) == [k \in DOMAIN xrefs |-> Tried(Entry(xrefs[k], id), shut)]

\* Mutation: a closed file forgets what it has read.
LookupOpen(id, shut) ==
    IF id \in DOMAIN loaded /\ ~shut THEN loaded[id] ELSE First(Tries(id, shut))
Lookup(id, shut) == IF id \in DOMAIN loaded THEN loaded[id] ELSE First(Tries(id, shut))

Getobj(id) == Lookup(id, closed)
Object(id) == loaded[id]

\* What f has, and what g has besides.
Merged(f, g) ==
    [x \in DOMAIN f \cup DOMAIN g |-> IF x \in DOMAIN f THEN f[x] ELSE g[x]]

\* cached_objs after getobj of each of the ids: the object, and the object streams
\* read on the way to it.
StreamsRead(id) ==
    LET tries == Tries(id, closed)
    IN  {Entry(xrefs[k], id).stream : k \in {j \in DOMAIN xrefs :
            /\ Entry(xrefs[j], id).kind = "packed"
            /\ \A i \in 1 .. j - 1 : tries[i] = Corrupt}}
Reading(ids) ==
    LET new == ids \ DOMAIN loaded
        streams == UNION {StreamsRead(id) : id \in new} \ DOMAIN loaded
        Found(id) == IF id \in new THEN Getobj(id) ELSE StreamOf(id, closed)
        kept == {id \in new \cup streams : Found(id).kind \notin {"missing", "raises"}}
    IN  [id \in DOMAIN loaded \cup kept |->
            IF id \in DOMAIN loaded THEN loaded[id] ELSE Found(id)]

-----------------------------------------------------------------------------
(* What the files are: the scan gives a section or raises, the ids of a       *)
(* section are a list, an object stream is in no object stream, the kids of a *)
(* node are a list.                                                           *)

Readable(d) == {s \in Range(d.sections) \cup {d.scan} : s.kind \notin {"invalid", "fails"}}
Entries(d) == UNION {{EntryOf(s, id) : id \in Ids(s)} : s \in Readable(d)}
Packed(d) == UNION {Range(e.objs) : e \in {f \in Entries(d) : f.kind = "objstm"}}
IsList(s) == s \in Seq(Range(s))

ASSUME DocumentsAssumption ==
    /\ MaxDepth \in Nat \ {0}
    /\ \A d \in Documents :
        /\ d.scan.kind # "invalid"
        /\ \A s \in Readable(d) : IsList(Objids(s))
        /\ \A e \in Entries(d) : e.kind = "packed" =>
                \A s \in Readable(d) : EntryOf(s, e.stream).kind # "packed"
        /\ \A o \in Entries(d) \cup Packed(d) : o.kind = "pages" => IsList(o.kids)
================================================================================

----------------------------- MODULE StreamFile -----------------------------
(* The streams of a port in the Qt client (client/port.cpp) and the file they are    *)
(* saved to and opened from (common/nativefileformat.cpp, common/ostmfileformat.cpp, *)
(* common/streamfileformat.cpp).  A file is its size and the messages in it, each at *)
(* an offset: cut short, it has lost the messages that do not fit.  Errors are told  *)
(* apart only from success.                                                          *)
EXTENDS Integers, SequencesExt

CONSTANTS
  Drafts,       \* streams the user makes: [name, pps, old, enabled, next]
  OlderFiles,   \* what another version of the program may have saved: [meta, content]
  MetaBytes,    \* ByteSize of the meta data: below 128 with every generator name there is
  MaxFileActs   \* bound: things the user does

VARIABLES
  own,      \* the port: mStreams, mAllocStreamId, dirty, the transmit mode, the average rate
  disk,     \* the file
  window,   \* what the main window, disabled then, waits for
  moving,   \* the streams on their way to the file or from it
  wrote,    \* what the file was last to hold; NoStreamList when writing it failed
  kept,     \* the streams that an open is to keep
  verdict,  \* how the last open or save ended
  fileActs
fileVars == <<own, disk, window, moving, wrote, kept, verdict, fileActs>>

NoStreamList == <<[name |-> <<>>, pps |-> 0, old |-> 0, enabled |-> FALSE, next |-> "none"]>>

---------------------------------------------------------------------------
(* The port's list *)

\* The enabled streams, in sequential mode up to one that stops the transmission.
Averaged(p) ==
  LET stops == {i \in DOMAIN p.list : p.list[i].s.enabled /\ p.list[i].s.next = "stop"}
      last == IF p.txmode = "sequential" /\ stops # {} THEN Min(stops) ELSE Len(p.list)
  IN  SelectSeq(SubSeq(p.list, 1, last), LAMBDA e : e.s.enabled)

\* The average packet rate is sum / over; the one in bits goes with it.
recalculateAverageRates(p) ==
  LET a == Averaged(p)
      sum == FoldLeft(LAMBDA x, e : x + e.s.pps, 0, a)
  IN  [p EXCEPT !.average =
         [sum |-> sum, over |-> IF p.txmode = "sequential" THEN Len(a) ELSE 1, active |-> Len(a)]]

updateStreamOrdinalsFromIndex(p) ==
  [p EXCEPT !.list = [i \in DOMAIN p.list |-> [p.list[i] EXCEPT !.ordinal = i - 1]]]

newStreamAt(p, index, s) ==
  LET e == [id |-> p.alloc, ordinal |-> 0, s |-> s]
  IN  [recalculateAverageRates(updateStreamOrdinalsFromIndex(
         [p EXCEPT !.list = InsertAt(p.list, index + 1, e)]))
       EXCEPT !.alloc = @ + 1, !.dirty = TRUE]

deleteStreamAt(p, index) ==
  IF index >= Len(p.list) THEN p
  ELSE [recalculateAverageRates(updateStreamOrdinalsFromIndex(
          [p EXCEPT !.list = RemoveAt(p.list, index + 1)])) EXCEPT !.dirty = TRUE]

\* Copies of the streams of a list of rows, count times, at the end and renamed.
duplicateStreams(p, rows, count) ==
  LET copies == FlattenSeq([i \in 1..count |->
                   [j \in DOMAIN rows |-> [p.list[rows[j] + 1].s EXCEPT !.name = Append(@, i)]]])
  IN  [FoldLeft(LAMBDA q, s : newStreamAt(q, Len(q.list), s), p, copies) EXCEPT !.dirty = TRUE]

\* A changed transmit mode changes the average.
updatePortConfig(p, m) ==
  IF m = p.txmode THEN p ELSE recalculateAverageRates([p EXCEPT !.txmode = m])

FreshPort ==
  [list |-> <<>>, alloc |-> 1, dirty |-> FALSE, txmode |-> "sequential",
   average |-> [sum |-> 0, over |-> 0, active |-> 0]]

Saved(p) == [i \in DOMAIN p.list |-> p.list[i].s]

---------------------------------------------------------------------------
(* NativeFileFormat: magic, meta data, content and checksum, one after the other *)

kFileMagicSize == 12
kFileChecksumSize == 5
kFileMinSize == kFileMagicSize + kFileChecksumSize
kFileMetaDataOffset == kFileMagicSize
kFileFormatVersionMajor == 0
kFileFormatVersionMinor == 2

Part(kind, at, size, value) == [kind |-> kind, at |-> at, size |-> size, value |-> value]

\* ParseFromArray(): a message is read where, and as long as, it was written.
Parsed(f, kind, at, size) == {p \in f.parts : p.kind = kind /\ p.at = at /\ p.size = size}
TheValue(parts) == (CHOOSE p \in parts : TRUE).value

\* Key and length, a varint, come before the meta data.
fileMetaSize(bytes) == bytes + 1 + (IF bytes < 128 THEN 1 ELSE 2)
FileContentSize(content) == 2 + 40 * Len(content)

\* Over the whole file with a checksum of zero.  The arithmetic of crc32c.cpp is left
\* out: two files are assumed not to have the same checksum.
checksumCrc32C(f) == <<f.size, {p \in f.parts : p.kind # "checksum"}>>

initFileMetaData ==
  [type |-> "streams", major |-> kFileFormatVersionMajor, minor |-> kFileFormatVersionMinor]

\* The buffer save() writes
Serialized(meta_, content) ==
  LET metaSize == fileMetaSize(MetaBytes)
      contentOffset == kFileMetaDataOffset + metaSize
      cksumOffset == contentOffset + FileContentSize(content)
      f == [size |-> cksumOffset + kFileChecksumSize,
            parts |-> {Part("magic", 0, kFileMagicSize, "OSTINATO"),
                       Part("meta", kFileMetaDataOffset, metaSize, meta_),
                       Part("content", contentOffset, FileContentSize(content), content)}]
  IN  [f EXCEPT !.parts = @ \cup {Part("checksum", cksumOffset, kFileChecksumSize, checksumCrc32C(f))}]

CutShort(f, n) == [size |-> n, parts |-> {p \in f.parts : p.at + p.size <= n}]

\* Magic and meta data are enough to tell whose file it is.
isNativeFileFormat(f) ==
  /\ Parsed(f, "magic", 0, kFileMagicSize) # {}
  /\ LET m == Parsed(f, "meta", kFileMetaDataOffset, fileMetaSize(MetaBytes))
     IN  m # {} /\ TheValue(m).type = "streams"

\* Of the formats streams are opened from, this one; any other file is unknown here.
fileFormatFromFile(f) == isNativeFileFormat(f)

\* open(): a file too small for magic and checksum, without them, changed since, with
\* meta data of another type or version, or whose content does not begin right after
\* the meta data is refused.
NativeMeta(f) == TheValue(Parsed(f, "meta", kFileMetaDataOffset, fileMetaSize(MetaBytes)))
NativeContent(f) ==
  LET contentOffset == kFileMetaDataOffset + MetaBytes + 2
  IN  Parsed(f, "content", contentOffset, f.size - contentOffset - kFileChecksumSize)
NativeOpens(f) ==
  /\ f.size >= kFileMinSize
  /\ Parsed(f, "magic", 0, kFileMagicSize) # {}
  /\ LET c == Parsed(f, "checksum", f.size - kFileChecksumSize, kFileChecksumSize)
     IN  c # {} /\ TheValue(c) = checksumCrc32C(f)
  /\ Parsed(f, "meta", kFileMetaDataOffset, fileMetaSize(MetaBytes)) # {}
  /\ NativeMeta(f).type = "streams"
  /\ NativeMeta(f).major = kFileFormatVersionMajor
  /\ NativeMeta(f).minor <= kFileFormatVersionMinor
  /\ NativeContent(f) # {}

\* Mutant: every version the meta data admits is taken for the native one.
postParseFixupNever(meta_, content) == content

\* Version 0.1 had the rates in fields that are obsolete.
postParseFixup(meta_, content) ==
  IF meta_.minor = 1 THEN [i \in DOMAIN content |-> [content[i] EXCEPT !.pps = content[i].old]]
  ELSE content

\* OstmFileFormat::open()
OstmOpens(f) == NativeOpens(f) /\ TheValue(NativeContent(f)) # NoStreamList
OstmStreams(f) == postParseFixup(NativeMeta(f), TheValue(NativeContent(f)))

---------------------------------------------------------------------------
(* What happens *)

FileInit ==
  /\ own = FreshPort
  /\ disk = [size |-> 0, parts |-> {}]
  /\ window = "idle" /\ moving = <<>> /\ wrote = NoStreamList /\ kept = <<>>
  /\ verdict = "none" /\ fileActs = 0

UserActs == window = "idle" /\ fileActs < MaxFileActs /\ fileActs' = fileActs + 1

\* The user changes the list or the port.
EditList ==
  /\ UserActs
  /\ \/ \E s \in Drafts, i \in 0..Len(own.list) : own' = newStreamAt(own, i, s)
     \/ \E i \in 0..(Len(own.list) - 1) : own' = deleteStreamAt(own, i)
     \/ own.list # <<>> /\ own' = duplicateStreams(own, <<0>>, 2)
     \/ \E m \in {"sequential", "interleaved"} : own' = updatePortConfig(own, m)
  /\ verdict' = "none"
  /\ UNCHANGED <<disk, window, moving, wrote, kept>>

\* The file is one that another version of the program, or a session, was saved to.
AnotherFile ==
  /\ UserActs
  /\ \E f \in OlderFiles :
       /\ disk' = Serialized(f.meta, f.content)
       /\ wrote' = IF f.meta.type = "streams" /\ f.meta.minor <= kFileFormatVersionMinor THEN f.means
                   ELSE NoStreamList
  /\ verdict' = "none"
  /\ UNCHANGED <<own, window, moving, kept>>

\* saveStreams(), and OstmFileFormat::save() with what it copied; the user may cancel.
saveStreams ==
  /\ UserActs
  /\ \/ window' = "save" /\ moving' = Saved(own) /\ verdict' = "none"
     \/ UNCHANGED <<window, moving>> /\ verdict' = "canceled"
  /\ UNCHANGED <<own, disk, wrote, kept>>

\* NativeFileFormat::save() opens the file, which empties it ...
SaveOpens ==
  /\ window = "save"
  /\ \/ /\ disk' = [size |-> 0, parts |-> {}] /\ wrote' = NoStreamList
        /\ window' = "write" /\ UNCHANGED verdict
     \/ window' = "idle" /\ verdict' = "failed" /\ UNCHANGED <<disk, wrote>>
  /\ UNCHANGED <<own, moving, kept, fileActs>>

\* ... and writes the buffer.  A part of it only is not an error unless it is nothing.
SaveWrites ==
  /\ window = "write"
  /\ LET f == Serialized(initFileMetaData, moving)
     IN  \/ disk' = f /\ wrote' = moving /\ verdict' = "saved"
         \/ /\ \E p \in f.parts : \E n \in {p.at, p.at + p.size} \ {f.size} : disk' = CutShort(f, n)
            /\ verdict' \in {"saved", "failed"} /\ UNCHANGED wrote
  /\ window' = "idle"
  /\ UNCHANGED <<own, moving, kept, fileActs>>

\* openStreams(): an unknown or unreadable file changes no stream.
openRefused ==
  /\ UserActs
  /\ ~(fileFormatFromFile(disk) /\ OstmOpens(disk))
  /\ own' = recalculateAverageRates(own)
  /\ kept' = Saved(own) /\ verdict' = "refused"
  /\ UNCHANGED <<disk, window, moving, wrote>>

openStreams(append) ==
  /\ UserActs
  /\ fileFormatFromFile(disk) /\ OstmOpens(disk)
  /\ moving' = OstmStreams(disk)
  /\ kept' = IF append THEN Saved(own) ELSE <<>>
  /\ window' = IF append THEN "construct" ELSE "delete"
  /\ verdict' = "none"
  /\ UNCHANGED <<own, disk, wrote>>

\* The streams there were are deleted from the front ...
OpenDeletes ==
  /\ window = "delete"
  /\ IF own.list # <<>> THEN own' = deleteStreamAt(own, 0) /\ UNCHANGED window
     ELSE window' = "construct" /\ UNCHANGED own
  /\ UNCHANGED <<disk, moving, wrote, kept, verdict, fileActs>>

\* ... those of the file appended one by one ...
OpenConstructs ==
  /\ window = "construct"
  /\ IF moving # <<>>
     THEN /\ own' = newStreamAt(own, Len(own.list), Head(moving)) /\ moving' = Tail(moving)
          /\ UNCHANGED <<window, verdict>>
     ELSE /\ own' = recalculateAverageRates([own EXCEPT !.dirty = TRUE])
          /\ window' = "idle" /\ verdict' = "opened" /\ UNCHANGED moving
  /\ UNCHANGED <<disk, wrote, kept, fileActs>>

\* ... unless the user has had enough.
OpenCanceled ==
  /\ \/ window = "delete" /\ own.list # <<>>
     \/ window = "construct" /\ moving # <<>>
  /\ window' = "idle" /\ verdict' = "canceled"
  /\ own' = recalculateAverageRates(own)
  /\ UNCHANGED <<disk, moving, wrote, kept, fileActs>>

\* The client dies and is started again; the file stays as it is.
ClientDies ==
  /\ window # "idle"
  /\ own' = FreshPort /\ window' = "idle" /\ moving' = <<>> /\ verdict' = "none"
  /\ UNCHANGED <<disk, wrote, kept, fileActs>>

FileNext ==
  \/ EditList \/ AnotherFile \/ saveStreams \/ SaveOpens \/ SaveWrites
  \/ openRefused \/ \E append \in BOOLEAN : openStreams(append)
  \/ OpenDeletes \/ OpenConstructs \/ OpenCanceled \/ ClientDies

---------------------------------------------------------------------------
(* Properties *)

\* An open that goes through leaves the streams that were to stay and, after them and in
\* order, those of the last save that was completed, however many saves were cut short
\* in between; a file that no completed save wrote is refused and changes nothing.  Ids
\* stay unique, ordinals are the rows, and the rate shown is that of the list.
LoadsWhatWasSaved ==
  /\ verdict = "opened" => wrote # NoStreamList /\ Saved(own) = kept \o wrote
  /\ verdict = "refused" => wrote = NoStreamList /\ Saved(own) = kept
  /\ \A i, j \in DOMAIN own.list : i # j => own.list[i].id # own.list[j].id
  /\ \A i \in DOMAIN own.list : own.list[i].ordinal = i - 1
  /\ own = recalculateAverageRates(own)
=============================================================================

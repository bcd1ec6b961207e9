--------------------------- MODULE StreamingTransfer ---------------------------
(***************************************************************************)
(* stream_transfer (storage/streaming_transfer.rs): a blob is copied from  *)
(* a reader to a writer in chunks, hashed on its way, with a checkpoint    *)
(* every few chunks.  The caller, modelled from the contract of the        *)
(* function (external), calls it again after an error or a crash with the  *)
(* checkpoint it has, on a fresh source and on a target cut to the         *)
(* checkpoint's offset.  A chunk is one or more units of the blob.         *)
(***************************************************************************)
EXTENDS Naturals, Sequences

CONSTANTS
    BlobUnits,            \* length of the blob
    ChunkUnits,           \* most units one read returns
    CheckpointInterval,   \* checkpoint_interval, in chunks
    MaxAttempts           \* bound on calls

ASSUME StreamingAssumption == {BlobUnits, ChunkUnits, CheckpointInterval} \subseteq Nat \ {0} /\ MaxAttempts \in Nat

VARIABLES
    checksDigest,  \* verify_digest is set and the checkpoint has a digest
    leg,           \* where the call is
    offset,        \* checkpoint.offset
    chunks,        \* checkpoint.chunks_completed, modulo the interval
    saved,         \* what on_checkpoint last stored: <<offset, chunks>>
    hashed,        \* units of the source fed to the hasher in this call
    inHand,        \* units read and not yet written
    target,        \* units written; 0 where a unit is missing
    durable,       \* how many of them a crash cannot undo
    sawLoss,       \* history: a crash undid units of a saved checkpoint
    attempts

transferVars == <<checksDigest, leg, offset, chunks, saved, hashed, inHand, target, durable, sawLoss, attempts>>

Units(from, to) == [i \in 1 .. to - from |-> from + i]
PadTo(n, units) == [i \in 1 .. n |-> IF i <= Len(units) THEN units[i] ELSE 0]

StreamingInit ==
    /\ checksDigest \in BOOLEAN
    /\ leg = "idle"
    /\ offset = 0 /\ chunks = 0 /\ saved = <<0, 0>>
    /\ hashed = 0 /\ inHand = 0
    /\ target = <<>> /\ durable = 0
    /\ sawLoss = FALSE
    /\ attempts = 0

\* The caller positions the target at the checkpoint and calls.
StreamTransfer ==
    /\ leg \in {"idle", "error"}
    /\ attempts < MaxAttempts /\ attempts' = attempts + 1
    /\ leg' = "skipping"
    /\ hashed' = 0 /\ inHand' = 0
    /\ target' = PadTo(offset, target)
    /\ durable' = IF durable > offset THEN offset ELSE durable
    /\ UNCHANGED <<checksDigest, offset, chunks, saved, sawLoss>>

\* A resumed call reads up to the offset and hashes what it discards.
SkipRead(n) ==
    /\ leg = "skipping" /\ hashed + n <= offset
    /\ hashed' = hashed + n
    /\ UNCHANGED <<checksDigest, leg, offset, chunks, saved, inHand, target, durable, sawLoss, attempts>>

SkipEnds ==
    /\ leg = "skipping" /\ hashed = offset
    /\ leg' = "reading"
    /\ UNCHANGED <<checksDigest, offset, chunks, saved, hashed, inHand, target, durable, sawLoss, attempts>>

\* A read fails or times out, the source ends while skipping, or the last flush
\* fails.
ReadFails ==
    /\ leg \in {"skipping", "reading"}
    /\ leg' = "error"
    /\ UNCHANGED <<checksDigest, offset, chunks, saved, hashed, inHand, target, durable, sawLoss, attempts>>

ReadChunk(n) ==
    /\ leg = "reading" /\ hashed + n <= BlobUnits
    /\ leg' = "writing"
    /\ hashed' = hashed + n
    /\ inHand' = n
    /\ UNCHANGED <<checksDigest, offset, chunks, saved, target, durable, sawLoss, attempts>>

\* A mutation of WriteFails: the checkpoint is advanced before the write.
WriteFailsCounted(n) ==
    /\ leg = "writing" /\ n <= inHand
    /\ leg' = "error"
    /\ target' = target \o Units(hashed - inHand, hashed - inHand + n)
    /\ offset' = offset + inHand
    /\ UNCHANGED <<checksDigest, chunks, saved, hashed, inHand, durable, sawLoss, attempts>>

\* write_all fails or times out after n units.
WriteFails(n) ==
    /\ leg = "writing" /\ n <= inHand
    /\ leg' = "error"
    /\ target' = target \o Units(hashed - inHand, hashed - inHand + n)
    /\ UNCHANGED <<checksDigest, offset, chunks, saved, hashed, inHand, durable, sawLoss, attempts>>

\* write_all returns: the checkpoint advances, and every CheckpointInterval
\* chunks it is saved, or the callback fails and the call with it.
WriteChunk ==
    /\ leg = "writing"
    /\ target' = target \o Units(hashed - inHand, hashed)
    /\ offset' = offset + inHand
    /\ chunks' = (chunks + 1) % CheckpointInterval
    /\ inHand' = 0
    /\ \/ leg' = "reading" /\ saved' = IF chunks' = 0 THEN <<offset', chunks'>> ELSE saved
       \/ leg' = "error" /\ chunks' = 0 /\ UNCHANGED saved
    /\ UNCHANGED <<checksDigest, hashed, durable, sawLoss, attempts>>

\* What was written reaches the medium (external).
Persisted ==
    /\ durable < Len(target)
    /\ durable' = Len(target)
    /\ UNCHANGED <<checksDigest, leg, offset, chunks, saved, hashed, inHand, target, sawLoss, attempts>>

\* The source ends, where it should or early: flush, and the digest of what was
\* read in this call is compared.
SourceEnds ==
    /\ leg = "reading"
    /\ leg' = IF checksDigest /\ hashed # BlobUnits THEN "error" ELSE "ok"
    /\ durable' = Len(target)
    /\ UNCHANGED <<checksDigest, offset, chunks, saved, hashed, inHand, target, sawLoss, attempts>>

\* The process ends: the saved checkpoint and what is durable are left.
Crash ==
    /\ leg \notin {"idle", "ok"}
    /\ leg' = "error"
    /\ offset' = saved[1] /\ chunks' = saved[2]
    /\ \E kept \in durable .. Len(target) :
          /\ target' = SubSeq(target, 1, kept)
          /\ durable' = kept
          /\ sawLoss' = (sawLoss \/ kept < saved[1])
    /\ UNCHANGED <<checksDigest, saved, hashed, inHand, attempts>>

StreamingNext ==
    \/ StreamTransfer \/ SkipEnds \/ ReadFails \/ WriteChunk \/ Persisted \/ SourceEnds \/ Crash
    \/ \E n \in 1 .. ChunkUnits : SkipRead(n) \/ ReadChunk(n)
    \/ \E n \in 0 .. ChunkUnits : WriteFails(n)

StreamingSpec == StreamingInit /\ [][StreamingNext]_transferVars

StreamingTypeOK ==
    /\ checksDigest \in BOOLEAN /\ sawLoss \in BOOLEAN
    /\ leg \in {"idle", "skipping", "reading", "writing", "ok", "error"}
    /\ {offset, saved[1], hashed, durable} \subseteq 0 .. BlobUnits
    /\ {chunks, saved[2]} \subseteq 0 .. CheckpointInterval - 1
    /\ inHand \in 0 .. ChunkUnits
    /\ target \in Seq(0 .. BlobUnits) /\ Len(target) <= BlobUnits
    /\ attempts \in 0 .. MaxAttempts

\* A call that returns Ok after comparing the digest has left the whole blob in
\* the target, however many errors, partial writes, short reads and crashes came
\* before: although the digest is of what this call read from the source, and
\* never of what earlier calls wrote.  Crashes that undo units below a saved
\* checkpoint are excepted: nothing flushes the target before a checkpoint is
\* saved, and the digest does not notice.
VerifiedMeansExact ==
    leg = "ok" /\ checksDigest /\ ~sawLoss => target = Units(0, BlobUnits)
=============================================================================

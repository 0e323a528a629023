--------------------------- MODULE DirectioChunk ----------------------------
(* verify_file on one chunk of a file that may have been damaged: every       *)
(* combination of the parts of two write units and of zeros, against every    *)
(* record the log may hold for it.                                            *)
EXTENDS DirectioVerify

CONSTANTS Chunk,      \* chunks of the file
          Stamps,     \* time stamps
          Fills       \* fill characters

ChunkConstantsOK == Chunk \subseteq Nat /\ Stamps \subseteq Nat \ {0}

VARIABLES k_i, k_wus, k_pattern, verdict

chunkVars == <<k_i, k_wus, k_pattern, verdict>>

Fillings == [no : Chunk, ts : Stamps, ch : Fills]
Fields(f) == {fill_chunk_pattern(u)[f] : u \in Fillings} \cup {HolePattern[f]}

\* One record of the log, or none, per chunk.
KeptRecords ==
    {w \in [Chunk -> Fillings \cup {[ZeroUnit EXCEPT !.no = k] : k \in Chunk}] :
        \A k \in Chunk : w[k].no = k}

ChunkInit ==
    /\ k_i \in Chunk
    /\ k_wus \in KeptRecords
    /\ k_pattern \in [hno : Fields("hno"), hts : Fields("hts"), hsum : Fields("hsum"),
                      first : Fields("first"), rest : Fields("rest"),
                      tsum : Fields("tsum"), tts : Fields("tts"), tno : Fields("tno")]
    /\ verdict = "none"

VerifyOne ==
    /\ verdict = "none"
    /\ verdict' = IF ChunkOK(k_i, k_pattern, k_wus) THEN "ok" ELSE "alarm"
    /\ UNCHANGED <<k_i, k_wus, k_pattern>>

ChunkNext == VerifyOne \/ (verdict # "none" /\ UNCHANGED chunkVars)

ChunkSpec == ChunkInit /\ [][ChunkNext]_chunkVars

\* The chunk is what the record says, or without a record a hole or any whole
\* chunk written for this place.
Intact ==
    IF k_wus[k_i].ts # 0
    THEN k_pattern = fill_chunk_pattern(k_wus[k_i])
    ELSE k_pattern \in {HolePattern} \cup {fill_chunk_pattern(u) : u \in {v \in Fillings : v.no = k_i}}

\* verify_file never raises an alarm on an intact chunk, recorded or not.
IntactAccepted == (verdict = "alarm") => ~ Intact

\* A chunk that still shows an older write, or another chunk's data, where the
\* log has a record is always found: a lost or misplaced write.
OtherWriteFound ==
    (verdict = "ok" /\ k_wus[k_i].ts # 0) =>
        \A u \in Fillings : k_pattern = fill_chunk_pattern(u) => u = k_wus[k_i]

\* Both: no false alarm, and no lost or misplaced write goes unnoticed.
VerifyFileIsRight == IntactAccepted /\ OtherWriteFound

\* The comment at directio_utils.c:331 gives the parts of a chunk and the one
\* at :460 says "verify write records in logfile": a recorded chunk that is
\* accepted has all its parts.
AcceptedIsIntact == (verdict = "ok" /\ k_wus[k_i].ts # 0) => Intact
=============================================================================

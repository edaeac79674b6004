---------------------------- MODULE ResidencyProbe ----------------------------
(***************************************************************************)
(* The choice between direct and buffered I/O: for every file of a         *)
(* checkpoint page_cache_resident_ratio maps windows of the file and asks  *)
(* mincore which of their pages are cached, then                           *)
(* choose_disk_backend_candidates compares the ratios with a threshold.    *)
(* stloader's resident_ratio is the same loop.                             *)
(***************************************************************************)
EXTENDS Integers, Sequences, FiniteSets, SequencesExt, FiniteSetsExt

CONSTANTS
    Page,           \* page size
    WindowBytes,    \* _PROBE_WINDOW_BYTES
    MaxPages,       \* _MAX_PROBE_PAGES
    MaxWindows,     \* _MAX_PROBE_WINDOWS
    Thresholds,     \* residency thresholds, in percent
    Checkpoints     \* sequences of files: size, cached pages, known

ProbeAssumption ==
    /\ {Page, WindowBytes, MaxPages, MaxWindows} \subseteq Nat \ {0}
    /\ WindowBytes % Page = 0
    /\ Thresholds \subseteq Nat
    /\ \A c \in Checkpoints :
          c \in Seq([size : Nat, cached : SUBSET Nat, known : BOOLEAN])

VARIABLES
    files,      \* the checkpoint
    threshold,  \* env_cache_resident_threshold()
    stage,      \* "start", "file", "window", "chosen"
    offset,     \* where the next window begins
    total,      \* pages mincore has reported on
    resident,   \* how many of them are cached
    seen,       \* the pages themselves
    asked,      \* offsets passed to mmap
    ratios,     \* one result per file probed
    backends    \* "none", "direct" or "buffered"

probeVars == <<files, threshold, stage, offset, total, resident, seen, asked, ratios,
              backends>>

Unknown == [resident |-> 0, total |-> 0]

ProbeInit ==
    /\ files \in Checkpoints /\ threshold \in Thresholds
    /\ stage = "start" /\ offset = 0 /\ total = 0 /\ resident = 0
    /\ seen = {} /\ asked = {} /\ ratios = <<>> /\ backends = "none"

file    == files[Len(ratios) + 1]
window  == Max({Page, Min({WindowBytes, file.size})})
windows == Max({1, Min({MaxWindows, (file.size + window - 1) \div window})})

\* Mutant: windows may be closer together than they are long.
StepShort == Max({Page, file.size \div windows})

step    == Max({window, file.size \div windows})
\* Whole pages of the window at offset.
length  == LET len == Min({window, file.size - offset}) IN len - (len % Page)

-----------------------------------------------------------------------------
\* A threshold above 1.0 disables the probe; without files there is no ratio.
CheckThreshold ==
    /\ stage = "start"
    /\ IF threshold > 100 \/ files = <<>>
       THEN stage' = "chosen" /\ backends' = "direct"
       ELSE stage' = "file" /\ UNCHANGED backends
    /\ UNCHANGED <<files, threshold, offset, total, resident, seen, asked, ratios>>

\* An empty file, or one that cannot be examined, has no ratio: os.stat fails, or
\* File::open and metadata do and min_resident_ratio takes the error for -1.0.  (A file
\* that vanishes between os.stat and os.open raises from the Python probe.)
BeginFile ==
    /\ stage = "file" /\ Len(ratios) < Len(files)
    /\ IF ~file.known \/ file.size = 0
       THEN /\ ratios' = Append(ratios, Unknown)
            /\ UNCHANGED <<stage, offset, total, resident, seen, asked>>
       ELSE /\ stage' = "window"
            /\ offset' = 0 /\ total' = 0 /\ resident' = 0
            /\ seen' = {} /\ asked' = {} /\ UNCHANGED ratios
    /\ UNCHANGED <<files, threshold, backends>>

MoreToProbe == offset < file.size /\ total < MaxPages /\ length > 0

\* mmap accepts page-aligned offsets only.
MmapSucceeds == offset % Page = 0

\* One window; when mincore fails it does not count.
ProbeWindow ==
    /\ stage = "window" /\ MoreToProbe /\ MmapSucceeds
    /\ asked' = asked \cup {offset}
    /\ LET pages == (offset \div Page)..((offset + length) \div Page - 1) IN
          \/ /\ total' = total + Cardinality(pages)
             /\ resident' = resident + Cardinality(pages \cap file.cached)
             /\ seen' = seen \cup pages
          \/ UNCHANGED <<total, resident, seen>>
    /\ offset' = offset + step
    /\ UNCHANGED <<files, threshold, stage, ratios, backends>>

\* The loop ends at the end of the file, at its limit, or when mmap fails.
EndFile ==
    /\ stage = "window" /\ ~(MoreToProbe /\ MmapSucceeds)
    /\ asked' = IF MoreToProbe THEN asked \cup {offset} ELSE asked
    /\ ratios' = Append(ratios, IF total = 0 THEN Unknown
                                ELSE [resident |-> resident, total |-> total])
    /\ stage' = "file"
    /\ UNCHANGED <<files, threshold, offset, total, resident, seen, backends>>

Warm(r) == r.resident * 100 >= threshold * r.total

Choose ==
    /\ stage = "file" /\ Len(ratios) = Len(files)
    /\ backends' = IF \A k \in DOMAIN ratios : ratios[k] # Unknown /\ Warm(ratios[k])
                   THEN "buffered" ELSE "direct"
    /\ stage' = "chosen"
    /\ UNCHANGED <<files, threshold, offset, total, resident, seen, asked, ratios>>

Chosen == stage = "chosen" /\ UNCHANGED probeVars

ProbeNext == CheckThreshold \/ BeginFile \/ ProbeWindow \/ EndFile \/ Choose \/ Chosen

ProbeSpec == ProbeInit /\ [][ProbeNext]_probeVars
-----------------------------------------------------------------------------
\* The ratio is over distinct pages of the file, at most one window more than
\* _MAX_PROBE_PAGES: windows neither overlap nor reach past the end, whatever
\* the size of the file.
PagesCountedOnce ==
    stage = "window" =>
        /\ total = Cardinality(seen)
        /\ resident = Cardinality(seen \cap file.cached)
        /\ \A p \in seen : (p + 1) * Page <= file.size
        /\ total < MaxPages + window \div Page

\* Buffered I/O is chosen only when every file was examined: a file of which
\* nothing is cached, or nothing is known, leads to direct I/O.
BufferedMeansWarm ==
    (backends = "buffered" /\ threshold > 0) =>
        \A k \in DOMAIN files : files[k].known /\ files[k].cached # {}

\* What the choice rests on: pages counted once, and buffered I/O only for files
\* that are known to be warm.
ProbeSound == PagesCountedOnce /\ BufferedMeansWarm

\* "mmap of a valid read-only fd with a page-aligned offset": every window is
\* asked for at an offset that mmap accepts.
OffsetsAligned == \A o \in asked : o % Page = 0
=============================================================================

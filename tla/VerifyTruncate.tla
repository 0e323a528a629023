--------------------------- MODULE VerifyTruncate ---------------------------
(***************************************************************************)
(* programs/truncate/verify_truncate.c: a file of whole clusters is        *)
(* written with a pattern, truncated to a random size, extended again to   *)
(* the end of that cluster, and read back cluster by cluster.  The file    *)
(* system is the system under test: it may give back a wrong byte.         *)
(*                                                                         *)
(* A byte is "pat" when it is the byte of the pattern for its place in the *)
(* cluster, "nul", or "bad".                                               *)
(***************************************************************************)
EXTENDS Integers

CONSTANTS clustersize,   \* bytes of a cluster (open_ocfs2_volume)
          clusters,      \* -c
          iter           \* -i

ASSUME TruncConstants ==
    clustersize \in Nat \ {0} /\ clusters \in Nat /\ iter \in Nat \ {0}

VARIABLES t_pc,          \* where run is
          t_n,           \* iterations done
          t_file,        \* what a read of each byte gives
          isize,         \* size of the file
          new_size,      \* the size drawn in run
          last_pattern,  \* the expected last cluster, by place
          last_cluster,  \* its number
          t_i,           \* loop counter of verify_truncate
          t_ret          \* result of run

truncVars == <<t_pc, t_n, t_file, isize, new_size, last_pattern, last_cluster, t_i, t_ret>>

TruncMax == clusters * clustersize
TruncBytes == 0 .. TruncMax - 1
Places == 0 .. clustersize - 1
pattern == [k \in Places |-> "pat"]

TruncInit ==
    /\ t_pc = "prep" /\ t_n = 0
    /\ t_file = [b \in TruncBytes |-> "nul"] /\ isize = 0
    /\ new_size = 0 /\ last_pattern = pattern /\ last_cluster = 0
    /\ t_i = 0 /\ t_ret = 0

TruncStop(rc) == t_pc' = "end" /\ t_ret' = rc

\* A call to the file system fails: run returns its result, main stops.
Fails == TruncStop(-1) /\ UNCHANGED <<t_n, t_file, isize, new_size, last_pattern, last_cluster, t_i>>

\* One byte of the file is wrong from here on, or none is.
Stored(f) == {f} \cup {[f EXCEPT ![b] = v] : b \in TruncBytes, v \in {"pat", "nul", "bad"}}

\* The loop of main, get_rand_ull and prep_file_with_pattern.
TruncPrepare ==
    /\ t_pc = "prep"
    /\ \/ Fails
       \/ /\ \E size \in 0 .. TruncMax : new_size' = size
          /\ t_file' = [b \in TruncBytes |-> "pat"] /\ isize' = TruncMax
          /\ t_pc' = "truncate"
          /\ UNCHANGED <<t_n, last_pattern, last_cluster, t_i, t_ret>>

LastPattern(size) ==
    [k \in Places |-> IF size % clustersize # 0 /\ k >= size % clustersize
                      THEN "nul" ELSE pattern[k]]

\* A size that is a whole number of clusters is taken to reach into the next one.
LastClusterRounded(size) == size \div clustersize

LastCluster(size) ==
    IF size % clustersize # 0 THEN size \div clustersize ELSE size \div clustersize - 1

file_truncate ==
    /\ t_pc = "truncate"
    /\ \/ Fails
       \/ /\ isize' = new_size
          /\ t_file' \in Stored([b \in TruncBytes |-> IF b < new_size THEN t_file[b] ELSE "nul"])
          /\ last_pattern' = LastPattern(new_size)
          /\ last_cluster' = LastCluster(new_size)
          /\ t_pc' = "extend"
          /\ UNCHANGED <<t_n, new_size, t_i, t_ret>>

\* The second truncate of run.
Extend ==
    /\ t_pc = "extend"
    /\ \/ new_size % clustersize # 0 /\ Fails
       \/ /\ isize' = IF new_size % clustersize # 0
                      THEN (new_size \div clustersize + 1) * clustersize ELSE isize
          /\ t_pc' = "open"
          /\ UNCHANGED <<t_n, t_file, new_size, last_pattern, last_cluster, t_i, t_ret>>

\* The open of verify_truncate and the test for an empty file.
TruncOpen ==
    /\ t_pc = "open"
    /\ \/ Fails
       \/ /\ t_pc' = IF last_cluster < 0 THEN "unlink" ELSE "clusters"
          /\ t_i' = 0
          /\ UNCHANGED <<t_n, t_file, isize, new_size, last_pattern, last_cluster, t_ret>>

\* What a read of cluster c gives; bytes past the end stay as they were in the
\* buffer, which no state of the program meets.
Cluster(c) == [k \in Places |-> t_file[c * clustersize + k]]

Same(c, expected) == Cluster(c) = expected

CheckClusters ==
    /\ t_pc = "clusters"
    /\ \/ t_i < last_cluster - 1 /\ Fails
       \/ /\ t_i < last_cluster - 1
          /\ IF Same(t_i, pattern) THEN t_i' = t_i + 1 /\ UNCHANGED <<t_pc, t_ret>>
                                 ELSE TruncStop(-1) /\ UNCHANGED t_i
          /\ UNCHANGED <<t_n, t_file, isize, new_size, last_pattern, last_cluster>>
       \/ /\ t_i >= last_cluster - 1
          /\ t_pc' = "last"
          /\ UNCHANGED <<t_n, t_file, isize, new_size, last_pattern, last_cluster, t_i, t_ret>>

\* The last cluster is read and compared, before and after fsync.  Both reads
\* are answered by the page cache.
CheckLast ==
    /\ t_pc = "last"
    /\ \/ Fails
       \/ /\ IF Same(last_cluster, last_pattern) THEN t_pc' = "unlink" /\ UNCHANGED t_ret
                                                 ELSE TruncStop(-1)
          /\ UNCHANGED <<t_n, t_file, isize, new_size, last_pattern, last_cluster, t_i>>

Unlink ==
    /\ t_pc = "unlink"
    /\ \/ Fails
       \/ /\ t_n' = t_n + 1
          /\ t_pc' = IF t_n + 1 < iter THEN "prep" ELSE "end"
          /\ t_file' = [b \in TruncBytes |-> "nul"] /\ isize' = 0 /\ t_i' = 0
          /\ UNCHANGED <<new_size, last_pattern, last_cluster, t_ret>>

TruncStep == TruncPrepare \/ file_truncate \/ Extend \/ TruncOpen \/ CheckClusters \/ CheckLast \/ Unlink

TruncNext == TruncStep \/ (t_pc = "end" /\ UNCHANGED truncVars)

TruncSpec == TruncInit /\ [][TruncNext]_truncVars

-----------------------------------------------------------------------------
\* What the file must hold: the pattern up to the new size, zeros behind it.
Right(b) == t_file[b] = IF b < new_size THEN "pat" ELSE "nul"

\* A verdict for the file system means that every byte verify_truncate has read is
\* right, those of the clusters its loop has passed and those from the beginning
\* of the last cluster to the end of the file: for every size drawn, also 0 and
\* exact multiples of the cluster size, the range behind the new size that
\* truncate must zero never goes unchecked, nor is it looked for elsewhere.
AcceptedIsRight ==
    t_pc = "unlink" =>
        \A b \in 0 .. isize - 1 :
            b < t_i * clustersize \/ b >= last_cluster * clustersize => Right(b)

\* No false alarm: a cluster is compared with a pattern it must hold, and every
\* cluster read lies inside the file, so that the comparison never sees bytes
\* left in the buffer by an earlier read.
NoFalseAlarm ==
    /\ t_pc = "clusters" /\ t_i < last_cluster - 1 =>
           /\ (t_i + 1) * clustersize <= isize
           /\ (\A b \in TruncBytes : Right(b)) => Same(t_i, pattern)
    /\ t_pc = "last" =>
           /\ (last_cluster + 1) * clustersize <= isize
           /\ (\A b \in TruncBytes : Right(b)) => Same(last_cluster, last_pattern)

\* Both, at every moment of every iteration.
TruncateVerdict == AcceptedIsRight /\ NoFalseAlarm

\* What the comments of verify_truncate say, "Verify clusters from file start to
\* 2nd last cluster" and then the last one: an accepted file is right in every
\* byte.  The loop stops one cluster short of it.
ClustersVerified == t_pc = "unlink" => \A b \in 0 .. isize - 1 : Right(b)
=============================================================================

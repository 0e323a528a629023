----------------------------- MODULE QuotaScript -----------------------------
(***************************************************************************)
(* programs/quota_tests/quota_multi_tests.c: what each rank calls.  Most   *)
(* tests fill the quota of a user or a group of the rank's own; in two of  *)
(* them all ranks work on files of a user of rank 0.  The parts of a test  *)
(* that only concern the rank itself, like "open, close and getquota", are *)
(* one call.  A barrier carries the line it stands in.                     *)
(***************************************************************************)
EXTENDS RankScript, TLC

CONSTANTS size, iterations, user_nums, group_nums,
          isoftlimit,   \* inodes; the hard limit is twice as much
          bhardlimit,   \* bsoftlimit * 2 * 1024, in clusters
          user_num,     \* users in a group
          rm_nums       \* files each of the others removes

\* Whom inodes and space are charged to.  name2id: a user of rank r, its group, and the
\* users of that group.
User(r) == <<"user", r, 0>>
Group(r) == <<"group", r, 0>>
Member(r, i) == <<"member", r, i % user_num>>
Nobody == <<>>

On(op, ids, n) == <<[op |-> op, ids |-> ids, n |-> n]>>

\* add_rm_user_group, getquota and setquota, with n for the current usage.
setquota(id, n) == On("setquota", {id}, n)
setquotainfo(r) == On("setquotainfo", {User(r)}, 0)

\* open with O_CREAT, and getquota of id if there is one: it must say n.
create(ids, id, n) == <<[op |-> "create", ids |-> ids, n |-> n, of |-> id]>>

\* One more must fail.
exceed(ids) == On("exceed", ids, 0)
write(ids) == On("write", ids, 0)
overwrite(ids) == On("overwrite", ids, 0)

\* The files of ids are removed, and then the users and the group.
cleanup(ids) == On("cleanup", ids, 0)

user_inodes_limit_test(r) ==
       setquota(User(r), 0)
    \o Each(2 * isoftlimit, LAMBDA i : create({User(r)}, User(r), i + 1))
    \o exceed({User(r)})
    \o cleanup({User(r)})

Members(r) == {Member(r, i) : i \in 0 .. user_num - 1}
group_inodes_limit_test(r) ==
       setquota(Group(r), 0) \o Each(user_num, LAMBDA i : setquota(Member(r, i), 0))
    \o Each(2 * isoftlimit, LAMBDA i : create({Group(r), Member(r, i)}, Group(r), i + 1))
    \o exceed({Group(r), Member(r, 2 * isoftlimit)})
    \o cleanup({Group(r)} \cup Members(r))

user_space_limit_test(r) ==
       setquota(User(r), 0) \o create({User(r)}, Nobody, 0)
    \o Each(bhardlimit, LAMBDA i : write({User(r)})) \o overwrite({User(r)})
    \o cleanup({User(r)})

group_space_limit_test(r) ==
       setquota(Group(r), 0)
    \o Each(user_num, LAMBDA i : setquota(Member(r, i), 0) \o create({Group(r), Member(r, i)}, Nobody, 0))
    \o Each(bhardlimit, LAMBDA i : write({Group(r), Member(r, i)}))
    \o overwrite({Group(r), Member(r, bhardlimit)})
    \o cleanup({Group(r)} \cup Members(r))

user_inodes_grace_time_test(r) ==
       setquota(User(r), 0) \o setquotainfo(r)
    \o Each(isoftlimit + 1, LAMBDA i : create({User(r)}, User(r), i + 1))
    \o On("sleep", {User(r)}, 0) \o exceed({User(r)})
    \o cleanup({User(r)})

\* Rank 0 creates the files while the others remove any they find and say which.
negative_inodes_limit_test(r) ==
       (IF r = 0
        THEN setquota(User(0), 0)
             \o Each(2 * isoftlimit, LAMBDA i : On("make", {User(0)}, i))
             \o Each(size - 1, LAMBDA j : Each(rm_nums, LAMBDA i :
                    <<[op |-> "recv", from |-> j + 1, mark |-> TRUE]>>))
             \o On("count", {User(0)}, 2 * isoftlimit - (size - 1) * rm_nums)
        ELSE Each(rm_nums, LAMBDA i : On("unlink", {User(0)}, 0) \o Send(0)))
    \o Barrier(622) \o Only(r = 0, On("unmark", {User(0)}, 0))

\* Rank r writes up to r clusters at the start of one file.
concurrent_rw_test(r) ==
       Only(r = 0, setquota(User(0), 0) \o create({User(0)}, Nobody, 0)) \o Barrier(1198)
    \o (IF r = 0
        THEN Each(size - 1, LAMBDA j : <<[op |-> "recv", from |-> j + 1, mark |-> FALSE]>>
                                           \o On("compare", {User(0)}, 0))
        ELSE On("pwrite", {User(0)}, r) \o Send(0))
    \o Barrier(1237) \o Only(r = 0, cleanup({User(0)}))

\* The usage starts as -1.
quota_corrupt_test(r) ==
       setquota(User(r), -1)
    \o Each(isoftlimit, LAMBDA i : create({User(r)}, Nobody, 0))
    \o On("settle", {User(r)}, isoftlimit) \o cleanup({User(r)})

\* What verify_quota_items finds in the first test is not looked at.
run_tests(r) ==
       Barrier(1257) \o setquota(User(r), 0) \o setquota(Group(r), 0)
    \o Barrier(1286) \o user_inodes_limit_test(r) \o Barrier(1289) \o group_inodes_limit_test(r)
    \o Barrier(1293) \o user_space_limit_test(r) \o Barrier(1296) \o group_space_limit_test(r)
    \o Barrier(1300) \o user_inodes_grace_time_test(r)
    \o Barrier(1305) \o Each(user_nums, LAMBDA i : user_inodes_limit_test(r))
    \o Barrier(1311) \o Each(group_nums, LAMBDA i : group_inodes_limit_test(r))
    \o Barrier(1317) \o Each(user_nums, LAMBDA i : user_inodes_limit_test(r) \o Barrier(1321)
                                                       \o group_inodes_limit_test(r))
    \o Barrier(1326) \o negative_inodes_limit_test(r)
    \o Barrier(1331) \o concurrent_rw_test(r)
    \o Barrier(1336) \o quota_corrupt_test(r)

\* Nothing keeps rank 0 from removing the directory while others are in the last test.
teardown(r) == Only(r = 0, On("rmdir", {}, 0)) \o Barrier(1401)

script == [r \in 0 .. size - 1 |-> Barrier(1391) \o Each(iterations, LAMBDA i : run_tests(r)) \o teardown(r)]
=============================================================================

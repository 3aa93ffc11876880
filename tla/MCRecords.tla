------------------------------ MODULE MCRecords ------------------------------
(***************************************************************************)
(* Records for TLC: a user and a job without authentication, two ids of an *)
(* audited table and one of a plain one, and names set by hand.            *)
(***************************************************************************)
EXTENDS Records, TLC

CONSTANTS user, job, k1, k2, p1, ann, byHand

MCClients == {user, job}
MCUser == user :> ann @@ job :> NoName
MCAudited == {k1, k2}
MCKeys == {k1, k2, p1}
MCNames == {ann, byHand}

Calls(ops, lists, manuals, sizes, txs) ==
    [op : ops, list : lists, manual : manuals, size : sizes, tx : txs]

MCRequests ==
    UNION {
      Calls({"save", "updateById"}, {<<k1>>}, {NoName, byHand}, {1}, {FALSE}),
      Calls({"saveOrUpdate", "removeById"}, {<<k1>>}, {NoName}, {1}, {FALSE}),
      Calls({"save", "updateById", "removeById"}, {<<p1>>}, {byHand}, {1}, {FALSE}),
      Calls({"saveOrUpdate", "removeByIds"}, {<< >>}, {NoName}, {1}, {FALSE}),
      Calls(Batches, {<<k1, k2>>}, {NoName}, {1}, {FALSE}),
      Calls({"saveBatch"}, {<<k1, k2>>}, {NoName}, {2}, {FALSE}),
      Calls(Batches, {<<k1, k2>>}, {NoName}, {2}, {TRUE}),
      Calls({"updateBatchById"}, {<<k2, k1>>}, {NoName}, {2}, {TRUE}),
      Calls({"saveBatch", "saveOrUpdateBatch"}, {<<k1, k1>>}, {NoName}, {2}, {TRUE}),
      Calls({"removeByIds"}, {<<p1>>}, {NoName}, {2}, {FALSE}) }

=============================================================================

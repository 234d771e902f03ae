-------------------------- MODULE MCExampleIdSync --------------------------
(***************************************************************************)
(* ExampleIdSync for TLC.  With SyncNums = 2 a full batch holds three ids. *)
(* The leader's five ids (with a duplicate in another file) end in a batch *)
(* of two, its three ids in an empty one; the follower has all of them, or *)
(* a part that ends before the leader's last batch.  With blocks of two    *)
(* the joiner is finished in the middle of the last batch.  Raw data that  *)
(* do not load are there to be refused.                                    *)
(***************************************************************************)
EXTENDS ExampleIdSync

MCLeaderRaw == {<< <<1, 2>>, <<3, 1, 4, 5>> >>, << <<1, 2, 3>> >>, << <<>> >>,
                << <<1, 0, 2>> >>}
MCFollowerRaw == {<< <<3, 1, 5>>, <<2, 4>> >>, << <<2, 1, 9, 3>> >>, <<>>}
=============================================================================

----------------------------- MODULE MCRecords ------------------------------
(* Records with edits and batches of 3 to 13 bytes in blocks of 10 *)
EXTENDS Records

SomeEdits ==
    {[E!NewEdit EXCEPT !.next_file_number_ = <<130>>],
     [E!NewEdit EXCEPT !.log_number_ = <<3>>, !.prev_log_number_ = <<0>>,
                       !.deleted_files_ = {<<1, 5>>, <<0, 300>>}],
     [E!NewEdit EXCEPT !.comparator_ = <<<<7>>>>, !.last_sequence_ = <<127>>],
     [E!NewEdit EXCEPT !.compact_pointers_ = <<<<1, <<7>>>>>>,
                       !.new_files_ = <<[level |-> 1, number |-> 6, file_size |-> 20000,
                                         smallest |-> <<1>>, largest |-> <<9>>]>>]}

PutOp(k, v) == [key |-> k, value |-> <<v>>]
DeleteOp(k) == [key |-> k, value |-> <<>>]

SomeUpdates ==
    {<<<<DeleteOp(<<1>>)>>>>,
     <<<<PutOp(<<>>, <<4>>), DeleteOp(<<0>>)>>, <<PutOp(<<1>>, <<>>)>>>>}
=============================================================================

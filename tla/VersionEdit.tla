---------------------------- MODULE VersionEdit -----------------------------
(***************************************************************************)
(* The records of a manifest (db/version_edit.cpp).  A member with a has_  *)
(* flag is a sequence of at most one value; internal keys are strings.     *)
(***************************************************************************)
EXTENDS Coding

CONSTANT kNumLevels

NewEdit == [comparator_ |-> <<>>, log_number_ |-> <<>>, prev_log_number_ |-> <<>>,
            next_file_number_ |-> <<>>, last_sequence_ |-> <<>>,
            compact_pointers_ |-> <<>>, deleted_files_ |-> {}, new_files_ |-> <<>>]

\* Clear leaves compact_pointers_ as it is.
Clear(edit) == [NewEdit EXCEPT !.compact_pointers_ = edit.compact_pointers_]

Concat(s, Encode(_)) == FoldLeft(LAMBDA dst, x : dst \o Encode(x), <<>>, s)

Earlier(a, b) == a[1] < b[1] \/ (a[1] = b[1] /\ a[2] < b[2])

EncodeTo(edit) ==
    LET Number(tag, has) == Concat(has, LAMBDA v : <<tag>> \o EncodeVarint(v))
        Pointer(p) == <<5, p[1]>> \o PutLengthPrefixedSlice(p[2])
        Deleted(d) == <<6, d[1]>> \o EncodeVarint(d[2])
        NewFile(f) == <<7, f.level>> \o EncodeVarint(f.number) \o EncodeVarint(f.file_size)
                      \o PutLengthPrefixedSlice(f.smallest) \o PutLengthPrefixedSlice(f.largest)
    IN  Concat(edit.comparator_, LAMBDA name : <<1>> \o PutLengthPrefixedSlice(name))
        \o Number(2, edit.log_number_) \o Number(9, edit.prev_log_number_)
        \o Number(3, edit.next_file_number_) \o Number(4, edit.last_sequence_)
        \o Concat(edit.compact_pointers_, Pointer)
        \o Concat(SetToSortSeq(edit.deleted_files_, Earlier), Deleted)
        \o Concat(edit.new_files_, NewFile)

\* A field and what is left of the input behind it, for a list of Get operators: the
\* fields of an entry are read one after the other until one fails.
RECURSIVE Fields(_, _)
Fields(input, kinds) ==
    IF kinds = <<>> THEN [ok |-> TRUE, value |-> <<>>, rest |-> input]
    ELSE LET g == CASE Head(kinds) = "level"  -> GetVarint32(input)
                    [] Head(kinds) = "number" -> GetVarint64(input)
                    [] Head(kinds) = "string" -> GetLengthPrefixedSlice(input)
             ok == g.ok /\ (Head(kinds) = "level" => g.value < kNumLevels)
             more == Fields(g.rest, Tail(kinds))
         IN  IF ok /\ more.ok THEN [more EXCEPT !.value = <<g.value>> \o @] ELSE Failed(input)

\* The fields behind each tag
Format == (1 :> <<"string">>) @@ (2 :> <<"number">>) @@ (9 :> <<"number">>)
          @@ (3 :> <<"number">>) @@ (4 :> <<"number">>) @@ (5 :> <<"level", "string">>)
          @@ (6 :> <<"level", "number">>)
          @@ (7 :> <<"level", "number", "number", "string", "string">>)

Apply(edit, tag, v) ==
    CASE tag = 1 -> [edit EXCEPT !.comparator_ = v]
      [] tag = 2 -> [edit EXCEPT !.log_number_ = v]
      [] tag = 9 -> [edit EXCEPT !.prev_log_number_ = v]
      [] tag = 3 -> [edit EXCEPT !.next_file_number_ = v]
      [] tag = 4 -> [edit EXCEPT !.last_sequence_ = v]
      [] tag = 5 -> [edit EXCEPT !.compact_pointers_ = Append(@, v)]
      [] tag = 6 -> [edit EXCEPT !.deleted_files_ = @ \cup {v}]
      [] tag = 7 -> [edit EXCEPT !.new_files_ = Append(@, [level |-> v[1], number |-> v[2],
                        file_size |-> v[3], smallest |-> v[4], largest |-> v[5]])]

RECURSIVE Decode(_, _)
Decode(edit, input) ==
    LET tag == GetVarint32(input)
        f   == Fields(tag.rest, Format[tag.value])
    IN  IF ~tag.ok THEN [ok |-> input = <<>>, edit |-> edit]
        ELSE IF tag.value \notin DOMAIN Format \/ ~f.ok THEN [ok |-> FALSE, edit |-> edit]
        ELSE Decode(Apply(edit, tag.value, f.value), f.rest)

DecodeFrom(edit, src) == Decode(Clear(edit), src)
=============================================================================

---------------------------- MODULE MCFileSystem ----------------------------
(***************************************************************************)
(* Archives for FileSystem, laid out by Tar as the tar format says.        *)
(***************************************************************************)
EXTENDS FileSystem

short(path) == [name |-> path, prefix |-> <<>>, full |-> FALSE, tail |-> ""]

dir(path) == [field |-> short(path), dir |-> TRUE, data |-> <<>>, ustar |-> TRUE]
file(path, data) == [field |-> short(path), dir |-> FALSE, data |-> data, ustar |-> TRUE]
old(path) == [field |-> short(path), dir |-> FALSE, data |-> <<>>, ustar |-> FALSE]

\* A path of more than 100 characters, and one whose name takes all 100.
split(m, prefix) == [m EXCEPT !.field.prefix = prefix]
filled(m, tail) == [m EXCEPT !.field.full = TRUE, !.field.tail = tail]

\* Data blocks are padded with zeros.
DataBlock(data, k) ==
  [kind |-> "data",
   bytes |-> [i \in 1..BLOCK |-> IF (k - 1) * BLOCK + i =< Len(data)
                                 THEN data[(k - 1) * BLOCK + i] ELSE 0]]

Member(m) ==
  <<[kind |-> "header", name |-> m.field.name, prefix |-> m.field.prefix, full |-> m.field.full,
     tail |-> m.field.tail, dir |-> m.dir, size |-> Len(m.data), ustar |-> m.ustar]>>
    \o [k \in 1..((Len(m.data) \div BLOCK) + (IF Len(m.data) % BLOCK = 0 THEN 0 ELSE 1)) |->
          DataBlock(m.data, k)]

Zero == [kind |-> "zero"]

Tar(members) == FlattenSeq([i \in 1..Len(members) |-> Member(members[i])]) \o <<Zero, Zero>>

MCArchives == {
  \* as "tar -c ." writes it
  Tar(<<dir(<<".", "">>), dir(<<".", "etc", "">>), file(<<".", "etc", "test">>, <<1, 2, 3>>),
        file(<<".", "sh">>, <<1, 2>>), dir(<<".", "bin", "">>), file(<<".", "bin", "sh">>, <<4>>)>>),
  \* as "tar -c etc" writes it, and without the zero blocks
  Tar(<<dir(<<"etc", "">>), file(<<"etc", "sh">>, <<>>), file(<<"etc", "test">>, <<1, 2, 3>>)>>),
  Member(file(<<"test">>, <<1, 2>>)) \o Member(file(<<"sh">>, <<4>>)),
  \* members appended again, a file in the place of a directory
  Tar(<<dir(<<"etc">>), file(<<"etc", "test">>, <<1, 2>>), dir(<<"etc">>), file(<<"etc", "sh">>, <<4>>)>>),
  Tar(<<file(<<"sh">>, <<4>>), file(<<"sh", "test">>, <<1, 2, 3>>), file(<<"sh">>, <<1, 2>>)>>),
  \* a missing directory, absolute paths with the root itself
  Tar(<<file(<<"bin", "sh">>, <<4>>), dir(<<"", "">>), dir(<<"", "etc">>), file(<<"", "etc", "test">>, <<1, 2>>)>>),
  \* paths that are too long for the name, one of a directory
  Tar(<<dir(<<".", "etc", "">>), split(file(<<"test">>, <<1, 2>>), <<".", "etc">>),
        filled(file(<<".", "etc", "sh">>, <<4>>), "sh0644"), filled(dir(<<"bin", "">>), "0755")>>),
  \* an archive in another format, and no archive
  Tar(<<file(<<"sh">>, <<4>>), old(<<"test">>)>>),
  <<>> }

MCContents == {<<>>, <<4>>, <<1, 2>>, <<1, 2, 3>>}

MCLookups == {
  <<"">>, <<"", "">>, <<"", "etc", "test">>, <<"etc", "", "sh", "">>, <<"", "bin">>,
  <<"", "etc", "test", "sh">>, <<"", "sh">>, <<"", "bin", "test">> }
=============================================================================

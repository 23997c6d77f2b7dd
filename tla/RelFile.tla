------------------------------ MODULE RelFile -------------------------------
(***************************************************************************)
(* A file of the tree: how RowMemtablePersistence and MergeRelFile build   *)
(* one (RowToColumn.cpp, ordered_dictionary.cpp, RelFileBuilder.h,         *)
(* BlockBuilder.h) and how it is read (RelFileParser.h, BlockParser.h,     *)
(* operator.h).  Operators only; ScanMerge puts them to work.              *)
(*                                                                         *)
(* A file has one column of values besides the key, all that MergeRelFile  *)
(* supports.  Its bytes are the fields written, each at its offset: what   *)
(* is read from an offset where no field starts is Garbage.                *)
(*                                                                         *)
(* Strings are numbers in their order, "" is 0.  The keys put are of full  *)
(* length, odd numbers from 3 on; Pad fills a shorter string with zero     *)
(* bytes, CStr cuts them off.                                              *)
(***************************************************************************)
EXTENDS Integers, FiniteSets, Sequences, Functions, FiniteSetsExt

CONSTANTS
    Key,                  \* the keys put
    Value,                \* the strings put
    MAX_BLOCK_SIZE,       \* bytes of rows in a block
    MEM_TABLE_MAX_SIZE,   \* rows of a merged file
    STANDARD_VECTOR_SIZE  \* indices filtered at a time

ASSUME RelFileAssumption ==
    /\ IsFiniteSet(Key) /\ \A k \in Key : k \in Nat /\ k % 2 = 1 /\ k >= 3
    /\ Value \subseteq Nat \ {0}
    /\ MAX_BLOCK_SIZE \in Nat /\ MAX_BLOCK_SIZE >= 20
    /\ MEM_TABLE_MAX_SIZE \in Nat \ {0} /\ STANDARD_VECTOR_SIZE \in Nat \ {0}

KEY_SIZE == 16
IdxSize == 4
SizeSize == 8
NONEINDEX == 1000000    \* for UINT32_MAX: above every index
Absent == 0               \* the empty tuple
Tombstone == -1           \* what DelTuple leaves in a memtable
Garbage == -2

Pad(s) == IF s % 2 = 0 THEN s + 1 ELSE s
CStr(s) == IF s % 2 = 1 THEN s - 1 ELSE s

(* Where x stands in S, and S in order.                                    *)
Place(S, x) == Cardinality({y \in S : y < x})
Sorted(S) == [i \in 1 .. Cardinality(S) |-> CHOOSE x \in S : Place(S, x) = i - 1]

(* Rows cut into parts of a size, the last as long as what is left.        *)
Parts(num, size) == (num - 1) \div size + 1
Part(rows, size, i) ==
    SubSeq(rows, (i - 1) * size + 1,
           IF i < Parts(Len(rows), size) THEN i * size ELSE Len(rows))

-----------------------------------------------------------------------------
(* OrderedDictionary: importData, getMapping and getString.                *)
Import(strings) == Sorted(strings \ {0})

GetMapping(dict, s) ==
    IF s \in Range(dict)
    THEN (CHOOSE i \in DOMAIN dict : dict[i] = s) - 1
    ELSE NONEINDEX

GetString(dict, i) == IF i + 1 \in DOMAIN dict THEN dict[i + 1] ELSE 0

(* Wrong: the left bound is searched for like the right one.               *)
SelectedAbove(dict, data, left_bound, right_bound) ==
    LET LeftBound == Cardinality({i \in DOMAIN dict : dict[i] <= left_bound})
        above == Cardinality({i \in DOMAIN dict : dict[i] <= right_bound})
        RightBound == IF above = 0 THEN NONEINDEX ELSE above - 1
    IN  IF LeftBound >= Len(dict) THEN {}
        ELSE {n \in DOMAIN data : LeftBound <= data[n] /\ data[n] <= RightBound}

(* rangefilter on indices: the places it selects.  Bounds are idx_t: the   *)
(* one below 0 is the largest, and never "RightBound < 0".                 *)
Selected(dict, data, left_bound, right_bound) ==
    LET LeftBound == Cardinality({i \in DOMAIN dict : dict[i] < left_bound})
        above == Cardinality({i \in DOMAIN dict : dict[i] <= right_bound})
        RightBound == IF above = 0 THEN NONEINDEX ELSE above - 1
    IN  IF LeftBound >= Len(dict) THEN {}
        ELSE {n \in DOMAIN data : LeftBound <= data[n] /\ data[n] <= RightBound}

-----------------------------------------------------------------------------
(* FileWriter::append: fields of one size at the end of what is written.   *)
AppendAll(f, size, values) ==
    LET new == {f.len + size * (n - 1) : n \in DOMAIN values}
    IN  [len |-> f.len + size * Len(values),
         at |-> [o \in DOMAIN f.at \cup new |->
                    IF o \in new THEN values[(o - f.len) \div size + 1] ELSE f.at[o]]]

Append1(f, size, value) == AppendAll(f, size, <<value>>)

(* ArrangeRelFileInfo: rows in a block, blocks, and the rows of block i.   *)
SingleBlockNum == MAX_BLOCK_SIZE \div (KEY_SIZE + IdxSize)
BlockCount(key_num) == Parts(key_num, SingleBlockNum)
BlockPart(rows, i) == Part(rows, SingleBlockNum, i)

(* SetBlock: keys, indices, then the sizes that ArrangeBlockInfo appends.  *)
AppendBlock(f, keys, vals) ==
    LET rows == AppendAll(AppendAll(f, KEY_SIZE, keys), IdxSize, vals)
        sized == Append1(rows, SizeSize, IdxSize)
        counted == AppendAll(sized, IdxSize, <<Len(keys), 1>>)
    IN  Append1(counted, SizeSize, KEY_SIZE)

(* What SetBlock says it has written.                                      *)
BlockSize(key_num) ==
    key_num * KEY_SIZE + IdxSize * key_num + SizeSize * (1 + 1) + IdxSize * 2

(* The blocks one after another, and the offset that is counted.           *)
Blocks(keys, vals) ==
    LET blocks[i \in 0 .. BlockCount(Len(keys))] ==
            IF i = 0 THEN [file |-> [len |-> 0, at |-> <<>>], now_offset_in_file |-> 0]
            ELSE [file |-> AppendBlock(blocks[i - 1].file, BlockPart(keys, i),
                                       BlockPart(vals, i)),
                  now_offset_in_file |-> blocks[i - 1].now_offset_in_file
                                         + BlockSize(Len(BlockPart(keys, i)))]
    IN  blocks

(* SetBlockMeta: of each block its least key, which is searched for, its   *)
(* offset and its size.                                                    *)
Metas(keys, blocks) ==
    LET n == BlockCount(Len(keys))
        metas[i \in 0 .. n] ==
            IF i = 0 THEN blocks[n].file
            ELSE LET part == BlockPart(keys, i)
                     named == Append1(metas[i - 1], KEY_SIZE, Min(Range(part)))
                     placed == Append1(named, SizeSize, blocks[i - 1].now_offset_in_file)
                 IN  Append1(placed, SizeSize, BlockSize(Len(part)))
    IN  metas

Arrange(keys, vals) ==
    LET n == BlockCount(Len(keys))
        blocks == Blocks(keys, vals)
    IN  [bytes |-> Metas(keys, blocks)[n].at, block_count |-> n,
         block_meta_begin_pos |-> blocks[n].now_offset_in_file]

(* A file's bytes and its RelFileMetaData; rows is history, what it was    *)
(* made from.                                                              *)
NewFile(key_min, key_max, dictionary, keys, vals, rows) ==
    LET arranged == Arrange(keys, vals)
    IN  [key_min |-> key_min, key_max |-> key_max, key_num |-> Len(keys),
         dictionary |-> dictionary, bloom |-> Range(keys), rows |-> rows,
         bytes |-> arranged.bytes, block_count |-> arranged.block_count,
         block_meta_begin_pos |-> arranged.block_meta_begin_pos]

-----------------------------------------------------------------------------
(* TempColumn: the columns of the rows at keys.  All columns of a deleted  *)
(* row are "", the key too.                                                *)
KeyColumn(rows, keys) ==
    [i \in DOMAIN keys |-> IF rows[keys[i]] = Tombstone THEN 0 ELSE keys[i]]
ValueColumn(rows, keys) ==
    [i \in DOMAIN keys |-> IF rows[keys[i]] = Tombstone THEN 0 ELSE rows[keys[i]]]

(* CompressData: strings become their indices.                             *)
CompressData(dict, column) == [i \in DOMAIN column |-> GetMapping(dict, column[i])]

(* RowMemtablePersistence of rows, [key -> string, Tombstone or Absent];   *)
(* keys are padded in place before the filter takes them.                  *)
Persisted(rows) ==
    LET there == Sorted({k \in Key : rows[k] # Absent})
        keys == [i \in DOMAIN there |-> Pad(KeyColumn(rows, there)[i])]
        dict == Import(Range(ValueColumn(rows, there)))
    IN  NewFile(there[1], there[Len(there)], dict, keys,
                CompressData(dict, ValueColumn(rows, there)), rows)

-----------------------------------------------------------------------------
(* BloomFilter::exists; a false yes only lets a read look in vain.         *)
MayHold(file, key) == key \in file.bloom

ReadAt(file, offset) ==
    IF offset \in DOMAIN file.bytes THEN file.bytes[offset] ELSE Garbage

(* RelFileParser's constructor: the metas of the blocks.                   *)
BlockMeta(file, i) ==
    LET pos == file.block_meta_begin_pos + (i - 1) * (KEY_SIZE + 2 * SizeSize)
    IN  [key_min |-> ReadAt(file, pos), offset |-> ReadAt(file, pos + KEY_SIZE),
         size |-> ReadAt(file, pos + KEY_SIZE + SizeSize)]

(* BlockParser's constructor: the block's numbers, found from its end.     *)
Block(file, i) ==
    LET meta == BlockMeta(file, i)
        end == meta.offset + meta.size
    IN  [key_num |-> ReadAt(file, end - 2 * IdxSize - SizeSize),
         key_size |-> ReadAt(file, end - SizeSize),
         col_size |-> ReadAt(file, end - 2 * IdxSize - 2 * SizeSize),
         offset |-> meta.offset]

KeyAt(file, b, n) == ReadAt(file, b.offset + n * b.key_size)
IdxAt(file, b, n) ==
    ReadAt(file, b.offset + b.key_num * b.key_size + n * b.col_size)

(* The binary search of GetIdx and GetTuple: the last row if every key is  *)
(* less.                                                                   *)
LowerIdx(file, b, key) ==
    LET search[lr \in (0 .. b.key_num) \X (-1 .. b.key_num)] ==
            LET l == lr[1]
                r == lr[2]
                mid == (l + r) \div 2
            IN  IF l >= r THEN l
                ELSE IF KeyAt(file, b, mid) < key THEN search[<<mid + 1, r>>]
                ELSE search[<<l, mid>>]
    IN  search[<<0, b.key_num - 1>>]

(* RelFileParser::GetTuple, and the string Transaction::GetTuple makes of  *)
(* it: the blocks whose range may hold the padded key.                     *)
FileGet(file, short) ==
    LET key == Pad(short)
        n == file.block_count
        hits == {i \in 1 .. n :
                    /\ BlockMeta(file, i).key_min <= key
                    /\ i = n \/ key < BlockMeta(file, i + 1).key_min
                    /\ KeyAt(file, Block(file, i), LowerIdx(file, Block(file, i), key)) = key}
        b == Block(file, Min(hits))
    IN  IF hits = {} THEN Absent
        ELSE GetString(file.dictionary, IdxAt(file, b, LowerIdx(file, b, key)))

(* GetBlock(key): the last block that does not begin after key.            *)
BlockFor(file, key) ==
    LET after == {i \in 1 .. file.block_count : key < BlockMeta(file, i).key_min}
        upper == IF after = {} THEN file.block_count + 1
                 ELSE Min(after)
    IN  IF upper = 1 THEN 1 ELSE upper - 1

(* GetKVTogether: the rows <<key, index>> of all blocks in order.          *)
KeysAndIdxs(file) ==
    LET rows[i \in 0 .. file.block_count] ==
            IF i = 0 THEN <<>>
            ELSE LET b == Block(file, i)
                 IN  rows[i - 1] \o [n \in 1 .. b.key_num |->
                                        <<KeyAt(file, b, n - 1), IdxAt(file, b, n - 1)>>]
    IN  rows[file.block_count]

-----------------------------------------------------------------------------
(* RowGroup: the file's column, STANDARD_VECTOR_SIZE indices at a time, is *)
(* filtered, and the keys at the places found are materialized.            *)
RangeKeys(file, left_bound, right_bound) ==
    LET rows == KeysAndIdxs(file)
        vector(i) == Part(rows, STANDARD_VECTOR_SIZE, i)
        found(i) == Selected(file.dictionary, [n \in DOMAIN vector(i) |-> vector(i)[n][2]],
                             left_bound, right_bound)
    IN  UNION {{vector(i)[n][1] : n \in found(i)} :
                  i \in 1 .. Parts(Len(rows), STANDARD_VECTOR_SIZE)}

-----------------------------------------------------------------------------
(* MergeRelFile of several files: the queue gives the rows by key and then *)
(* by input; of one key only the first row is kept.                        *)
KeptRows(files) ==
    LET rows == [f \in DOMAIN files |-> KeysAndIdxs(files[f])]
        keys(f) == {rows[f][n][1] : n \in DOMAIN rows[f]}
        kept == Sorted(UNION {keys(f) : f \in DOMAIN files})
        input(k) == Min({f \in DOMAIN files : k \in keys(f)})
        row(k) == Min({n \in DOMAIN rows[input(k)] : rows[input(k)][n][1] = k})
    IN  [i \in DOMAIN kept |-> [key |-> kept[i], file |-> input(kept[i]),
                               idx |-> rows[input(kept[i])][row(kept[i])][2]]]

(* Wrong: an index is taken over as it is when its string is in use.       *)
NewIdxKept(files, part, row) == row.idx

StringOf(files, row) == GetString(files[row.file].dictionary, row.idx)
Strings(files, part) == {StringOf(files, part[n]) : n \in DOMAIN part}

(* remap: the place of the row's string among those the new file uses.     *)
NewIdx(files, part, row) == Place(Strings(files, part), StringOf(files, row))

(* One new file, with its dictionary.                                      *)
MergedFile(files, part) ==
    LET keys == [n \in DOMAIN part |-> part[n].key]
        input(k) == {part[n].file : n \in {n \in DOMAIN part : part[n].key = k}}
    IN  NewFile(CStr(keys[1]), keys[Len(keys)], Import(Strings(files, part)), keys,
                [n \in DOMAIN part |-> NewIdx(files, part, part[n])],
                [k \in Key |-> IF input(k) = {} THEN Absent
                              ELSE files[Min(input(k))].rows[k]])

(* The rows are cut into files of MEM_TABLE_MAX_SIZE.                      *)
Merged(files) ==
    LET rows == KeptRows(files)
    IN  [i \in 1 .. Parts(Len(rows), MEM_TABLE_MAX_SIZE) |->
            MergedFile(files, Part(rows, MEM_TABLE_MAX_SIZE, i))]

(* One file alone is copied.                                               *)
MergeRelFile(files) == IF Len(files) = 1 THEN files ELSE Merged(files)

(* MergeRelFile uses an index to address remap, whatever it is.            *)
Mergeable(files) ==
    Len(files) > 1 =>
        \A f \in DOMAIN files : \A r \in Range(KeysAndIdxs(files[f])) : r[2] # NONEINDEX
=============================================================================

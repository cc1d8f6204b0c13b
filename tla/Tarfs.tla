------------------------------- MODULE Tarfs -------------------------------
(***************************************************************************)
(* The file system of sys/tarfs.c: a tar archive linked into the kernel,   *)
(* the table tarfs_init builds from it, and the look-ups in both.          *)
(*                                                                         *)
(* A name is a sequence of cells: one per component, one per "/".  An      *)
(* archive is the sequence of its entries; its image (offsets, header      *)
(* blocks, octal size fields, two zero blocks at the end) is what tar      *)
(* makes of it.  Addresses are offsets from _binary_tarfs_start, which is  *)
(* not 0.  As find writes them, a directory comes before what it holds,    *)
(* every name is there once, and a component has two characters or more.   *)
(***************************************************************************)
EXTENDS Naturals, Sequences

SeqExt == INSTANCE SequencesExt

CONSTANTS Block,        \* bytes in a block (512)
          Digits        \* octal digits of a size field that need not be 0

\* The field has 11 digits.  octalToDecimal takes its remainders of (int)n, so
\* it is read right up to nine of them, that is for files below 128 MB.
ASSUME TarfsAssumption == Block \in Nat \ {0} /\ Digits \in 1..9

NoParent == 999
TableSize == 100        \* entries of tarfs_fs, the last of which stays empty
TarStart == Block       \* _binary_tarfs_start: any address but 0
NUL == <<>>             \* the byte that ends a string

Smallest(S) == CHOOSE x \in S : \A y \in S : x <= y
Largest(S) == CHOOSE x \in S : \A y \in S : x >= y

\* n without its last k octal digits
Rest(n) ==
    LET rest[k \in 0..Digits] == IF k = 0 THEN n ELSE rest[k - 1] \div 8
    IN  rest

Entry == [name : Seq(STRING) \ {<<>>}, type : {"FILE_TYPE", "DIRECTORY"}, size : Nat]

WellFormed(a) ==
    /\ a \in Seq(Entry) /\ Len(a) < TableSize
    /\ \A i, j \in 1..Len(a) : a[i].name = a[j].name => i = j
    /\ \A i \in 1..Len(a) :
        /\ Rest(a[i].size)[Digits] = 0
        /\ \A k \in 1..Len(a[i].name) : a[i].name[k] = "/" <=> k % 2 = 0
        /\ a[i].type = "DIRECTORY" <=> a[i].name[Len(a[i].name)] = "/"
        /\ a[i].type = "DIRECTORY" => a[i].size = 0
        /\ \A k \in 1..(Len(a[i].name) - 1) : a[i].name[k] = "/" =>
              \E j \in 1..(i - 1) : a[j].name = SubSeq(a[i].name, 1, k)
-----------------------------------------------------------------------------
(* The image of an archive, as tar lays it out.                            *)

\* offset of the k-th header; of the first zero block for k = Len(a) + 1
Start(a) ==
    LET at[k \in 1..(Len(a) + 1)] ==
            IF k = 1 THEN TarStart
            ELSE at[k - 1] + Block * (1 + (a[k - 1].size + Block - 1) \div Block)
    IN  at

TarEnd(a) == Start(a)[Len(a) + 1] + 2 * Block

\* the entries whose header is at address x: one or none
HeaderAt(a, x) == {k \in 1..Len(a) : Start(a)[k] = x}

\* what is found in the name field at address x; a block of a file's contents
\* is not a name any entry has
NameAt(a, x) ==
    IF HeaderAt(a, x) # {} THEN a[Smallest(HeaderAt(a, x))].name
    ELSE IF x < Start(a)[Len(a) + 1] THEN <<"contents">> ELSE <<>>

SizeField(a, x) ==
    LET n == IF HeaderAt(a, x) # {} THEN a[Smallest(HeaderAt(a, x))].size ELSE 0
    IN  [i \in 1..Digits |-> Rest(n)[Digits - i] % 8]

\* the byte at address x: the j-th of the k-th entry, or padding.  Bytes of a
\* file are told apart by their place only and none of them is a NUL, as in a
\* text; printed as a string an ELF would end at its first NUL.
ByteAt(a, x) ==
    LET holds(k) == x \in (Start(a)[k] + Block)..(Start(a)[k] + Block + a[k].size - 1)
    IN  IF \E k \in 1..Len(a) : holds(k)
        THEN LET k == CHOOSE n \in 1..Len(a) : holds(n)
             IN  <<k, x - Start(a)[k] - Block + 1>>
        ELSE NUL
-----------------------------------------------------------------------------
(* Size fields.                                                            *)

\* the digits read as a decimal number
stoi(f) ==
    LET read[i \in 0..Len(f)] == IF i = 0 THEN 0 ELSE read[i - 1] * 10 + f[i]
    IN  read[Len(f)]

\* a number whose decimal digits are octal ones
octalToDecimal(n) ==
    LET convert[m \in Nat] == IF m = 0 THEN 0 ELSE (m % 10) + 8 * convert[m \div 10]
    IN  convert[n]

\* the octal digits read from the last to the first
getSize(f) ==
    LET count[k \in 0..Len(f)] == IF k = 0 THEN 1 ELSE count[k - 1] * 8
        size[k \in 0..Len(f)] ==
            IF k = 0 THEN 0 ELSE size[k - 1] + f[Len(f) - k + 1] * count[k - 1]
    IN  size[Len(f)]
-----------------------------------------------------------------------------
(* tarfs_init                                                              *)

\* the step of tarfs_init when the padding of a partial block is forgotten
NextHeaderUnpadded(size) == size + Block

\* from one header to the next
NextHeader(size) ==
    IF size = 0 THEN Block
    ELSE IF size % Block = 0 THEN size + Block ELSE size + (Block - (size % Block)) + Block

\* the headers tarfs_init meets, up to an empty name
Walk(a) ==
    LET from[x \in Nat] ==
            IF NameAt(a, x) = <<>> THEN <<>>
            ELSE <<x>> \o from[x + NextHeader(octalToDecimal(stoi(SizeField(a, x))))]
    IN  from[TarStart]

\* get_per_ind when the "/" that ends a directory is taken for its parent's
SlashesOwn(name, type) == {k \in 1..Len(name) : name[k] = "/"}

\* where the backward scans of get_per_ind and get_per_ind_file may stop
Slashes(name, type) ==
    {k \in 1..(IF type = "DIRECTORY" THEN Len(name) - 1 ELSE Len(name)) : name[k] = "/"}

\* get_per_ind, get_per_ind_file: index in the table filled so far
ParentIndex(names, name, type) ==
    IF Slashes(name, type) = {} THEN NoParent
    ELSE LET parent == SubSeq(name, 1, Largest(Slashes(name, type)))
         IN  Smallest({i \in 1..Len(names) : names[i] = parent} \cup {Len(names) + 1})

\* the table tarfs_fs
tarfs_init(a) ==
    LET addr == Walk(a)
        names == [i \in 1..Len(addr) |-> NameAt(a, addr[i])]
        type(x) == IF HeaderAt(a, x) = {} THEN "FILE_TYPE"
                   ELSE a[Smallest(HeaderAt(a, x))].type
    IN  [i \in 1..Len(addr) |->
            [name |-> names[i],
             size |-> octalToDecimal(stoi(SizeField(a, addr[i]))),
             addr_hdr |-> addr[i],
             typeflag |-> type(addr[i]),
             par_ind |-> ParentIndex(SubSeq(names, 1, i - 1), names[i], type(addr[i]))]]
-----------------------------------------------------------------------------
(* Look-ups.                                                               *)

\* getElfHeader: a walk of its own, by getSize and up to the end of the image.
\* The size "read" from a zero block takes it far beyond that end.
getElfHeader(a, file) ==
    LET from[x \in Nat] ==
            LET size == getSize(SizeField(a, x))
            IN  IF x >= TarEnd(a) THEN 0
                ELSE IF NameAt(a, x) = file THEN x + Block
                ELSE IF NameAt(a, x) = <<>> THEN 0
                ELSE from[x + (size \div Block + 1) * Block
                            + (IF size % Block = 0 THEN 0 ELSE Block)]
    IN  from[TarStart]

Matches(fs, name, type) == {i \in 1..Len(fs) : fs[i].name = name /\ fs[i].typeflag = type}
Lookup(fs, name, type) ==
    IF Matches(fs, name, type) = {} THEN 0
    ELSE fs[Smallest(Matches(fs, name, type))].addr_hdr

opendirect(fs, d) == Lookup(fs, d, "DIRECTORY")
openfile(fs, f) == Lookup(fs, f, "FILE_TYPE")

\* what readdirect prints for the root, whatever the archive holds
RootList == <<<<"bin", "/">>, <<"etc", "/">>, <<"boot", "/">>, <<"lib", "/">>, <<"usr", "/">>>>

HasPrefix(name, d) == Len(name) >= Len(d) /\ SubSeq(name, 1, Len(d)) = d

\* readdirect: the names printed.  Entries in front of the directory itself are
\* compared with parent = -1 and never match.
readdirect(fs, d) ==
    LET parent == {i \in 1..Len(fs) : fs[i].name = d}
        shown(e) == IF e.name # d /\ HasPrefix(e.name, d) /\ e.par_ind \in parent
                    THEN <<SubSeq(e.name, Len(d) + 1, Len(e.name))>> ELSE <<>>
    IN  IF d = <<>> THEN RootList
        ELSE SeqExt!FlattenSeq([i \in 1..Len(fs) |-> shown(fs[i])])

\* readfile: the cells stored in the caller's buffer, one more than the bytes
\* copied
readfile(a, fd, size) ==
    LET file_size == octalToDecimal(stoi(SizeField(a, fd)))
        n == IF file_size < size THEN file_size ELSE size
    IN  [i \in 1..(n + 1) |-> IF i <= n THEN ByteAt(a, fd + Block + i - 1) ELSE NUL]

\* the string in a buffer
String(buf) == SubSeq(buf, 1, Smallest({i \in 1..Len(buf) : buf[i] = NUL}) - 1)
=============================================================================

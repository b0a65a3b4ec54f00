------------------------------- MODULE MCRamFs -------------------------------
EXTENDS RamFs

CONSTANTS hello, readme, a

MCNames == {hello, a}

\* fs_init's hello.txt and readme.txt, shortened.
MCInitFiles == << [name |-> hello, data |-> <<1, 2>>],
                  [name |-> readme, data |-> <<2>>] >>

\* One byte, and three bytes that cross a block boundary.
MCWriteData == {<<2>>, <<1, 2, 1>>}
====

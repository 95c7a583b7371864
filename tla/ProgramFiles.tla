---------------------------- MODULE ProgramFiles ----------------------------
(***************************************************************************)
(* The files of the program: what a file that is added is divided into,    *)
(* and what is read of what the program writes (FileLayout), along with    *)
(* what becomes of the progress file (ProgressFile).                       *)
(***************************************************************************)
EXTENDS ProgressFile, FileLayout

\* From the moment a file is added, of whatever size below 2^32, every byte of
\* it is in one block, is written where it is read, and is under the hash of
\* its piece in the metadata (FileSplitter, createMetaData, getOffset).
FileDescribed == life # "new" => {n \in FileSizes : n < UintSize} \subseteq Described

\* A table that is saved, and the other files of the program, are read as they
\* were written: the metadata of any names (but for the port), the progress of
\* names that are not longer than 255, and a piece of it also after it was
\* written over (but for its status and time); and they are as long as the
\* places in the progress file are counted by.
FilesReadBack ==
    chooser = "save" =>
        /\ MetaDataRead = Lengths \X Lengths
        /\ {l \in Lengths \X Lengths : l[1] < 256 /\ l[2] < 256} \subseteq ProgressRead
        /\ PieceRead = HashCounts
        /\ TotalLength(Progress(NameLength, creator)) = HeaderLength
        /\ \A p \in Piece : TotalLength(PieceInfo(Cardinality(BlocksOf(p)))) = PieceLength(p)
=============================================================================

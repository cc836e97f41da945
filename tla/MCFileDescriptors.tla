------------------------- MODULE MCFileDescriptors -------------------------
(* The devices of this system, and one file system whose files may refuse to *)
(* be opened.                                                                *)
EXTENDS FileDescriptors, TLC
CONSTANTS null, uart, spi, fs, dev, file

Devices == {null, uart, spi}
TwoDevices == <<uart, spi>>
OneFilesystem == <<fs>>
Names == null :> <<dev, null>> @@ uart :> <<dev, uart>> @@ spi :> <<dev, spi>> @@ fs :> <<fs>>
Callbacks == null :> {"write"} @@ uart :> {"read", "write", "close", "ioctl"}
             @@ spi :> {} @@ fs :> {"open", "close", "read", "write", "lseek", "fstat"}
Stdio == [f \in Std |-> <<dev, uart>>]
Opened == {<<dev, null>>, <<fs, file>>, <<file>>}
Modes == {{"O_RDWR", "ALT_FD_EXCL"}}
Settings == {{}, {"O_NONBLOCK", "O_WRONLY"}}
===========================================================================

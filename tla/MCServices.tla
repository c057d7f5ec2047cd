----------------------------- MODULE MCServices -----------------------------
(***************************************************************************)
(* The services that do not interact with one another, side by side: a     *)
(* behaviour is one of any one of them (service), and the variables of the *)
(* others stay as they are initially.                                      *)
(***************************************************************************)
EXTENDS Naturals, Sequences

CONSTANTS
  Procs, Nobody, Files, Root, BSIZE, NDIRECT, NINDIRECT, NBlocks, MaxChunk, Sizes, MaxOps,
  Writers, Printers, Handler, UART_TX_BUF_SIZE, FIFO, MaxOut,
  Readers, INPUT_BUF_SIZE, Wrap, ReadSizes,
  MAXARG, MaxSegments, OldSizes, Segments,
  FProcs, NFILE, NOFILE,
  MAXARGS, MaxLine, Lines, MaxForkFails

VARIABLES
  service,
  disk, foff, lock, wr, freeblock, ops,
  tx_w, tx_r, txlock, fifo, line, overrun, txirq, ua, echoed,
  cbuf, cr, cw, ce, conslock, rd,
  pc, argn, image, new, sz, seg, segs, owned, ip, held, panicked,
  file, ofile, pipes, call,
  typed, tree, procs, failed

blocksVars == <<disk, foff, lock, wr, freeblock, ops>>
uartVars == <<tx_w, tx_r, txlock, fifo, line, overrun, txirq, ua, echoed>>
consoleVars == <<cbuf, cr, cw, ce, conslock, rd>>
execVars == <<pc, argn, image, new, sz, seg, segs, owned, ip, held, panicked>>
filesVars == <<file, ofile, pipes, call>>
shVars == <<typed, tree, procs, failed>>

Blocks == INSTANCE FileBlocks
Uart == INSTANCE Uart
Console == INSTANCE Console
Exec == INSTANCE SysExec
Open == INSTANCE FileTable
Shell == INSTANCE Sh

Init ==
  /\ service \in {"blocks", "uart", "console", "exec", "files", "sh"}
  /\ Blocks!Init /\ Uart!Init /\ Console!Init /\ Exec!Init /\ Open!Init /\ Shell!Init

BlocksStep ==
  /\ service = "blocks" /\ Blocks!Next
  /\ UNCHANGED <<service, uartVars, consoleVars, execVars, filesVars, shVars>>

UartStep ==
  /\ service = "uart" /\ Uart!Next
  /\ UNCHANGED <<service, blocksVars, consoleVars, execVars, filesVars, shVars>>

ConsoleStep ==
  /\ service = "console" /\ Console!Next
  /\ UNCHANGED <<service, blocksVars, uartVars, execVars, filesVars, shVars>>

ExecStep ==
  /\ service = "exec" /\ Exec!Next
  /\ UNCHANGED <<service, blocksVars, uartVars, consoleVars, filesVars, shVars>>

FilesStep ==
  /\ service = "files" /\ Open!Next
  /\ UNCHANGED <<service, blocksVars, uartVars, consoleVars, execVars, shVars>>

ShellStep ==
  /\ service = "sh" /\ Shell!Next
  /\ UNCHANGED <<service, blocksVars, uartVars, consoleVars, execVars, filesVars>>

Next == BlocksStep \/ UartStep \/ ConsoleStep \/ ExecStep \/ FilesStep \/ ShellStep

Spec == Init /\ [][Next]_<<service, blocksVars, uartVars, consoleVars, execVars, filesVars, shVars>>

-----------------------------------------------------------------------------
Segment(load, vaddr, filesz, memsz) ==
  [load |-> load, vaddr |-> vaddr, filesz |-> filesz, memsz |-> memsz, at |-> 0]

\* An odd size, an empty one, one that starts higher, one that is not aligned,
\* one with more in the file than in memory, and one not to be loaded.
MCSegments ==
  {Segment(TRUE, 0, 1, 1), Segment(TRUE, 0, 0, 0), Segment(TRUE, 2, 2, 3),
   Segment(TRUE, 4, 1, 2), Segment(TRUE, 1, 1, 1), Segment(TRUE, 0, 2, 1),
   Segment(FALSE, 0, 0, 0)}

\* a|a|a   (a;a)|a&   a<aa>a|(a>aa>a;a)   a&;a|(a&)   and a line with an error
MCLines ==
  {<<"a", "|", "a", "|", "a">>,
   <<"(", "a", ";", "a", ")", "|", "a", "&">>,
   <<"a", "<", "a", "a", ">", "a", "|", "(", "a", ">", "a", "a", ">", "a", ";", "a", ")">>,
   <<"a", "&", ";", "a", "|", "(", "a", "&", ")">>,
   <<"a", "&", "a">>}

-----------------------------------------------------------------------------
\* The properties of the services, under their own names.
\* fs.c, mkfs.c: FileBlocks
BitmapExact == Blocks!BitmapExact
\* uart.c: Uart
OutputFlows == Uart!OutputFlows
LineInputSpec == Console!LineInputSpec
\* exec.c: SysExec
OneImage == Exec!OneImage
\* file.c, sys_pipe(): FileTable
FilesExact == Open!FilesExact
\* sh.c: Sh
ParsesAsWritten == Shell!ParsesAsWritten
WiredAsWritten == Shell!WiredAsWritten
LinesEnd == Shell!LinesEnd
=============================================================================

------------------------------ MODULE MCLoopWait ------------------------------
\* LoopWait for TLC.
EXTENDS LoopWait

\* Foreign callbacks with sockets, files with standard input, and standard input
\* with sockets or with the sides of a child.
MCPrograms ==
    {{"ffi", "net", "dgram"}, {"fs_renames", "fs_watchers", "stdin"}, {"stdin", "net"},
     {"stdin", "child_streams", "child_ipc"}, {"stdin", "child_writers", "children"}}
=============================================================================

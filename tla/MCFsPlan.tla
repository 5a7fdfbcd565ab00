------------------------------ MODULE MCFsPlan ------------------------------
(* A root with a file (name 1) and a directory (name 2) that holds a file. *)
EXTENDS FsPlan

Entry(number) == [made |-> "original", number |-> number]
note == Entry(1)
folder == Entry(2)
inner == Entry(3)

MCRoot == [made |-> "root"]
MCOriginals == {note, folder, inner}
MCLayout == [e \in MCOriginals |->
    CASE e = note   -> [dir |-> MCRoot, name |-> 1, kind |-> "file"]
      [] e = folder -> [dir |-> MCRoot, name |-> 2, kind |-> "dir"]
      [] e = inner  -> [dir |-> folder, name |-> 1, kind |-> "file"]]
MCPaths == {<<1>>, <<2>>, <<3>>, <<2, 1>>, <<3, 1>>}
=============================================================================

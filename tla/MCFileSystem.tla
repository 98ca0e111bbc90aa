---------------------------- MODULE MCFileSystem ----------------------------
EXTENDS FileSystem

CONSTANTS t1, t2, dev, storage, initrd, hdd0, home, de

MCThreads == {t1, t2}

(* "de" is a string prefix of "dev".                                       *)
MCNamePrefix == {<<de, dev>>}

(* A FAT root partition that already holds /home.                          *)
MCRootDisk == {[path |-> <<home>>, dir |-> TRUE]}

Req(op, p) == [op |-> op, path |-> p]

(* Mounting, unmounting, creating and deleting /home while the storage    *)
(* device comes and goes; /dev may be unmounted and the device formatted. *)
MCRequests ==
  {Req("mount", <<home>>), Req("unmount", <<home>>),
   Req("createDirectory", <<home>>), Req("deleteFile", <<home>>),
   Req("unmount", <<dev>>), Req("createFilesystem", <<dev, storage, hdd0>>)}

(* A mount of /home racing the deletion of the directory.                  *)
MCMountDeleteRequests ==
  {Req("createDirectory", <<home>>), Req("mount", <<home>>),
   Req("deleteFile", <<home>>)}

(* Every path of up to four tokens over one name, "." and "..".           *)
MCPaths == UNION {[1..n -> {".", "..", home}] : n \in 0..4}

MCAddRemove == <<"add", "remove">>
MCAdd == <<"add">>
=============================================================================

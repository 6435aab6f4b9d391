------------------------- MODULE MCS3GlacierRestorer -------------------------
(***************************************************************************)
(* Small backups for S3GlacierRestorer.  The folder root holds the file    *)
(* long (three blobs), the folder sub, and the file other; sub holds the   *)
(* file twin.                                                              *)
(***************************************************************************)
EXTENDS S3GlacierRestorer

CONSTANTS root, sub, long, other, twin, link, pipe, hollow, socket,
          blob1, blob2, blob3, blob4, pack1, pack2, object3

Tree == root :> <<long, sub, other>> @@ sub :> <<twin>>

\* The first two blobs share a pack, the others a second one and an object.
Where == blob1 :> pack1 @@ blob2 :> pack1 @@ blob3 :> pack2 @@ blob4 :> object3
TwoPacks == blob1 :> pack1 @@ blob2 :> pack1 @@ blob3 :> pack2 @@ blob4 :> pack2

\* twin is another name of long, and other shares a blob with it.
LinkedData == long :> <<blob1, blob2, blob3>> @@ other :> <<blob1>>
                @@ twin :> <<blob1, blob2, blob3>>
LinkedKind == [f \in File |-> "regular"]
LinkedIno == root :> 1 @@ sub :> 2 @@ long :> 3 @@ other :> 4 @@ twin :> 3
LinkedAttr == root :> blob4 @@ sub :> None @@ long :> None @@ other :> blob4
                @@ twin :> None

\* One file of each kind.
MixedTree == root :> <<link, sub, pipe, hollow>> @@ sub :> <<socket, other>>
MixedData == link :> <<blob1>> @@ pipe :> <<>> @@ hollow :> <<>> @@ socket :> <<>>
               @@ other :> <<blob2, blob3>>
MixedKind == link :> "symlink" @@ pipe :> "fifo" @@ hollow :> "empty"
               @@ socket :> "socket" @@ other :> "regular"
MixedIno == root :> 1 @@ sub :> 2 @@ link :> 3 @@ pipe :> 4 @@ hollow :> 5
              @@ socket :> 6 @@ other :> 7
MixedAttr == root :> None @@ sub :> None @@ link :> None @@ pipe :> blob4
               @@ hollow :> None @@ socket :> None @@ other :> None
=============================================================================

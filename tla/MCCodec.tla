------------------------------ MODULE MCCodec ------------------------------
(* Codec with arguments made of two fragments: {} and two spellings of one object. *)
EXTENDS Codec

MCCanon == (<<"{}">> :> <<"{}">>) @@ (<<"a", "b">> :> <<"a", "b">>) @@ (<<"b", "a">> :> <<"a", "b">>)
MCEmptyObject == <<"{}">>
MCTools == <<"t", "u">>
=============================================================================

------------------------- MODULE ChannelNegotiation --------------------------
(***************************************************************************)
(* Feature negotiation: src/crates/tap-ldk-core/src/                       *)
(* asset_channel_negotiation.rs.  A feature bit is its name; a required    *)
(* and an optional bit of a feature are different bits.                    *)
(***************************************************************************)
EXTENDS Integers, FiniteSets

ProtocolVersion == 1

FeatureSet(required, optional) ==
  [required |-> required, optional |-> optional, version |-> ProtocolVersion]

Disabled == FeatureSet(FALSE, FALSE)
AdvertiseOptional == FeatureSet(FALSE, TRUE)
Require == FeatureSet(TRUE, FALSE)

(* supports_asset_channels *)
Supports(features) == features.required \/ features.optional

Features == {"simple_taproot", "taproot_asset"}

(* feature_bits and to_ldk_init_features: required wins over optional. *)
FeatureBits(features) ==
  CASE features.required -> Features \X {"required"}
    [] ~features.required /\ features.optional -> Features \X {"optional"}
    [] OTHER -> {}

(* The fork's negotiate_single_asset_channel and its check of the channel  *)
(* type: each side has both features, in either form.                      *)
ForkNegotiates(local, remote) ==
  \A bits \in {local, remote} : \A f \in Features : \E form \in {"required", "optional"} :
    <<f, form>> \in bits

(* negotiate_channel for a single asset returns Ok. *)
Negotiates(local, remote) ==
  /\ local.version = ProtocolVersion /\ remote.version = ProtocolVersion
  /\ Supports(local) /\ Supports(remote)
  /\ ForkNegotiates(FeatureBits(local), FeatureBits(remote))

(* NegotiationOutcome *)
Outcome(local, remote) ==
  [channel |-> "SingleAsset", local |-> FeatureBits(local), remote |-> FeatureBits(remote)]

(* require_asset_message_allowed *)
AssetMessageAllowed(channel) == channel = "SingleAsset"

==============================================================================

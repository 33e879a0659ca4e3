----------------------------- MODULE WireSchemas -----------------------------
(***************************************************************************)
(* The messages of the two protocols, as the tables that the generated     *)
(* OTLP code and the hand-written remote-write code unroll: for each field *)
(* its number, the name and the shape of the Go field, and how its value   *)
(* is written.  A shape is                                                 *)
(*   plain     written when it is not the zero value                       *)
(*   always    written whatever its value                                  *)
(*   pointer   a pointer, written when it is not nil                       *)
(*   repeated  a slice, one tagged value for each element                  *)
(*   packed    a slice, one tag and one length for all of its elements     *)
(*   oneof     one of several cases of the interface field in.             *)
(* checked says that the decoder compares the wire type of the field.      *)
(***************************************************************************)
EXTENDS Naturals

Field(num, name, shape, kind) ==
    [num |-> num, name |-> name, shape |-> shape, kind |-> kind, of |-> "", in |-> name, checked |-> TRUE]

Plain(num, name, kind) == Field(num, name, "plain", kind)
Always(num, name, kind) == Field(num, name, "always", kind)
Unchecked(field) == [field EXCEPT !.checked = FALSE]
Pointer(num, name, kind) == Field(num, name, "pointer", kind)
Packed(num, name, kind) == Field(num, name, "packed", kind)
Strings(num, name) == Field(num, name, "repeated", "bytes")
Message(num, name, of) == [Field(num, name, "pointer", "message") EXCEPT !.of = of]
Messages(num, name, of) == [Field(num, name, "repeated", "message") EXCEPT !.of = of]
Case(num, in, name, kind) == [Field(num, name, "oneof", kind) EXCEPT !.in = in]
MessageCase(num, in, name, of) == [Field(num, name, "oneof", "message") EXCEPT !.in = in, !.of = of]

-----------------------------------------------------------------------------
(* The collector's request and its answer *)

ExportMetricsServiceRequest == <<Messages(1, "ResourceMetrics", "ResourceMetrics")>>

ExportMetricsServiceResponse == <<Message(1, "PartialSuccess", "ExportMetricsPartialSuccess")>>

ExportMetricsPartialSuccess == <<Plain(1, "RejectedDataPoints", "varint"), Plain(2, "ErrorMessage", "bytes")>>

(* Metrics *)

MetricsData == <<Messages(1, "ResourceMetrics", "ResourceMetrics")>>

ResourceMetrics ==
    <<Message(1, "Resource", "Resource"), Messages(2, "ScopeMetrics", "ScopeMetrics"), Plain(3, "SchemaUrl", "bytes")>>

ScopeMetrics ==
    <<Message(1, "Scope", "InstrumentationScope"), Messages(2, "Metrics", "Metric"), Plain(3, "SchemaUrl", "bytes")>>

Metric ==
    <<Plain(1, "Name", "bytes"), Plain(2, "Description", "bytes"), Plain(3, "Unit", "bytes"),
      MessageCase(5, "Data", "Gauge", "Gauge"), MessageCase(7, "Data", "Sum", "Sum"),
      MessageCase(9, "Data", "Histogram", "Histogram"),
      MessageCase(10, "Data", "ExponentialHistogram", "ExponentialHistogram"),
      MessageCase(11, "Data", "Summary", "Summary"), Messages(12, "Metadata", "KeyValue")>>

Gauge == <<Messages(1, "DataPoints", "NumberDataPoint")>>

Sum ==
    <<Messages(1, "DataPoints", "NumberDataPoint"), Plain(2, "AggregationTemporality", "varint"),
      Plain(3, "IsMonotonic", "bool")>>

Histogram == <<Messages(1, "DataPoints", "HistogramDataPoint"), Plain(2, "AggregationTemporality", "varint")>>

ExponentialHistogram ==
    <<Messages(1, "DataPoints", "ExponentialHistogramDataPoint"), Plain(2, "AggregationTemporality", "varint")>>

Summary == <<Messages(1, "DataPoints", "SummaryDataPoint")>>

NumberDataPoint ==
    <<Plain(2, "StartTimeUnixNano", "fixed64"), Plain(3, "TimeUnixNano", "fixed64"),
      Case(4, "Value", "AsDouble", "fixed64"), Messages(5, "Exemplars", "Exemplar"),
      Case(6, "Value", "AsInt", "fixed64"), Messages(7, "Attributes", "KeyValue"), Plain(8, "Flags", "varint")>>

HistogramDataPoint ==
    <<Plain(2, "StartTimeUnixNano", "fixed64"), Plain(3, "TimeUnixNano", "fixed64"), Plain(4, "Count", "fixed64"),
      Pointer(5, "Sum", "fixed64"), Packed(6, "BucketCounts", "fixed64"), Packed(7, "ExplicitBounds", "fixed64"),
      Messages(8, "Exemplars", "Exemplar"), Messages(9, "Attributes", "KeyValue"), Plain(10, "Flags", "varint"),
      Pointer(11, "Min", "fixed64"), Pointer(12, "Max", "fixed64")>>

Buckets == <<Plain(1, "Offset", "zigzag"), Packed(2, "BucketCounts", "varint")>>

ExponentialHistogramDataPoint ==
    <<Messages(1, "Attributes", "KeyValue"), Plain(2, "StartTimeUnixNano", "fixed64"),
      Plain(3, "TimeUnixNano", "fixed64"), Plain(4, "Count", "fixed64"), Pointer(5, "Sum", "fixed64"),
      Plain(6, "Scale", "zigzag"), Plain(7, "ZeroCount", "fixed64"), Message(8, "Positive", "Buckets"),
      Message(9, "Negative", "Buckets"), Plain(10, "Flags", "varint"), Messages(11, "Exemplars", "Exemplar"),
      Pointer(12, "Min", "fixed64"), Pointer(13, "Max", "fixed64"), Plain(14, "ZeroThreshold", "fixed64")>>

ValueAtQuantile == <<Plain(1, "Quantile", "fixed64"), Plain(2, "Value", "fixed64")>>

SummaryDataPoint ==
    <<Plain(2, "StartTimeUnixNano", "fixed64"), Plain(3, "TimeUnixNano", "fixed64"), Plain(4, "Count", "fixed64"),
      Plain(5, "Sum", "fixed64"), Messages(6, "QuantileValues", "ValueAtQuantile"),
      Messages(7, "Attributes", "KeyValue"), Plain(8, "Flags", "varint")>>

Exemplar ==
    <<Plain(2, "TimeUnixNano", "fixed64"), Case(3, "Value", "AsDouble", "fixed64"), Plain(4, "SpanId", "bytes"),
      Plain(5, "TraceId", "bytes"), Case(6, "Value", "AsInt", "fixed64"),
      Messages(7, "FilteredAttributes", "KeyValue")>>

(* Attributes and resources *)

AnyValue ==
    <<Case(1, "Value", "StringValue", "bytes"), Case(2, "Value", "BoolValue", "bool"),
      Case(3, "Value", "IntValue", "varint"), Case(4, "Value", "DoubleValue", "fixed64"),
      MessageCase(5, "Value", "ArrayValue", "ArrayValue"), MessageCase(6, "Value", "KvlistValue", "KeyValueList"),
      Case(7, "Value", "BytesValue", "bytes")>>

ArrayValue == <<Messages(1, "Values", "AnyValue")>>

KeyValueList == <<Messages(1, "Values", "KeyValue")>>

KeyValue == <<Plain(1, "Key", "bytes"), Message(2, "Value", "AnyValue")>>

InstrumentationScope ==
    <<Plain(1, "Name", "bytes"), Plain(2, "Version", "bytes"), Messages(3, "Attributes", "KeyValue"),
      Plain(4, "DroppedAttributesCount", "varint")>>

EntityRef ==
    <<Plain(1, "SchemaUrl", "bytes"), Plain(2, "Type", "bytes"), Strings(3, "IdKeys"), Strings(4, "DescriptionKeys")>>

Resource ==
    <<Messages(1, "Attributes", "KeyValue"), Plain(2, "DroppedAttributesCount", "varint"),
      Messages(3, "EntityRefs", "EntityRef")>>

OtlpSchemas ==
    [ExportMetricsServiceRequest |-> ExportMetricsServiceRequest,
     ExportMetricsServiceResponse |-> ExportMetricsServiceResponse,
     ExportMetricsPartialSuccess |-> ExportMetricsPartialSuccess,
     MetricsData |-> MetricsData, ResourceMetrics |-> ResourceMetrics, ScopeMetrics |-> ScopeMetrics,
     Metric |-> Metric, Gauge |-> Gauge, Sum |-> Sum, Histogram |-> Histogram,
     ExponentialHistogram |-> ExponentialHistogram, Summary |-> Summary, NumberDataPoint |-> NumberDataPoint,
     HistogramDataPoint |-> HistogramDataPoint, Buckets |-> Buckets,
     ExponentialHistogramDataPoint |-> ExponentialHistogramDataPoint, ValueAtQuantile |-> ValueAtQuantile,
     SummaryDataPoint |-> SummaryDataPoint, Exemplar |-> Exemplar, AnyValue |-> AnyValue,
     ArrayValue |-> ArrayValue, KeyValueList |-> KeyValueList, KeyValue |-> KeyValue,
     InstrumentationScope |-> InstrumentationScope, EntityRef |-> EntityRef, Resource |-> Resource]

-----------------------------------------------------------------------------
(* Prometheus remote write *)

PRWWriteRequest == <<Messages(1, "Timeseries", "PRWTimeSeries"), Messages(3, "Metadata", "PRWMetricMetadata")>>

PRWTimeSeries ==
    <<Messages(1, "Labels", "PRWLabel"), Messages(2, "Samples", "PRWSample"),
      Messages(3, "Exemplars", "PRWExemplar"), Messages(4, "Histograms", "PRWHistogram")>>

PRWLabel == <<Always(1, "Name", "bytes"), Always(2, "Value", "bytes")>>

PRWSample == <<Always(1, "Value", "fixed64"), Always(2, "Timestamp", "varint")>>

PRWExemplar ==
    <<Messages(1, "Labels", "PRWLabel"), Always(2, "Value", "fixed64"), Always(3, "Timestamp", "varint")>>

PRWHistogram ==
    <<Unchecked(Plain(1, "Count", "varint")), Unchecked(Plain(2, "CountFloat", "fixed64")),
      Unchecked(Plain(3, "Sum", "fixed64")), Unchecked(Plain(4, "Schema", "zigzag")),
      Unchecked(Plain(5, "ZeroThreshold", "fixed64")), Unchecked(Plain(6, "ZeroCount", "varint")),
      Unchecked(Plain(7, "ZeroCountFloat", "fixed64")), Messages(8, "NegativeSpans", "PRWBucketSpan"),
      Packed(9, "NegativeDeltas", "zigzag"), Packed(10, "NegativeCounts", "fixed64"),
      Messages(11, "PositiveSpans", "PRWBucketSpan"), Packed(12, "PositiveDeltas", "zigzag"),
      Packed(13, "PositiveCounts", "fixed64"), Unchecked(Plain(14, "ResetHint", "varint")),
      Unchecked(Always(15, "Timestamp", "varint"))>>

PRWBucketSpan == <<Always(1, "Offset", "zigzag"), Always(2, "Length", "varint")>>

PRWMetricMetadata ==
    <<Unchecked(Plain(1, "Type", "varint")), Plain(2, "MetricFamilyName", "bytes"), Plain(3, "Help", "bytes"),
      Plain(4, "Unit", "bytes")>>

PRWSchemas ==
    [PRWWriteRequest |-> PRWWriteRequest, PRWTimeSeries |-> PRWTimeSeries, PRWLabel |-> PRWLabel,
     PRWSample |-> PRWSample, PRWExemplar |-> PRWExemplar, PRWHistogram |-> PRWHistogram,
     PRWBucketSpan |-> PRWBucketSpan, PRWMetricMetadata |-> PRWMetricMetadata]
===============================================================================
